---- MODULE Spec2Model ----
(***************************************************************************)
(* Finance ledger engine of the Electron personal-finance application:     *)
(* the ipcMain handlers of src/electron/ipc/finance.ts acting on the       *)
(* SQLite schema of src/electron/db/database.ts.                           *)
(*                                                                         *)
(* Every handler is synchronous (better-sqlite3), so one handler call is   *)
(* one atomic step of the state machine.  A handler is an operator from    *)
(* the database and its arguments to a result and a new database; the      *)
(* action of the same name applies it to the state.                        *)
(*                                                                         *)
(* Amounts are integers: on them IEEE-754 double arithmetic is exact.      *)
(***************************************************************************)
EXTENDS Integers, Sequences, FiniteSets, Bags, TLC

VARIABLES users, accounts, transactions, monthly_budgets, sqlite_sequence, last, inflight,
          items

vars == <<users, accounts, transactions, monthly_budgets, sqlite_sequence, last, inflight,
          items>>

(***************************************************************************)
(* Bounds of the model.                                                    *)
(***************************************************************************)
\* rows the accounts table may hold before createAccount is no longer called
MaxAccounts == 2
\* transaction identifiers handed out before createTransaction is no longer called
MaxTx == 2
\* rows of monthly_budgets in the runs that exercise the budgets
MaxBudgets == 2
\* transactions ever created in the runs that exercise the listings
MaxListed == 3
\* requests the renderer sends without awaiting the answers
MaxInFlight == 2

(***************************************************************************)
(* JavaScript values crossing the IPC boundary: a tag and a payload.       *)
(***************************************************************************)
Num(n) == [t |-> "num", v |-> n]
Str(s) == [t |-> "str", v |-> s]
NaN == [t |-> "nan", v |-> 0]
Undef == [t |-> "undef", v |-> 0]
Null == [t |-> "null", v |-> 0]

\* Number(x)
ToNumber(x) ==
  IF x.t = "num" THEN x
  ELSE IF x.t = "null" THEN Num(0)
  ELSE NaN

\* x ?? d
Nullish(x, d) == IF x.t \in {"undef", "null"} THEN d ELSE x

\* !x
Falsy(x) ==
  \/ x.t \in {"undef", "null", "nan"}
  \/ x.t = "num" /\ x.v = 0
  \/ x.t = "str" /\ x.v = <<>>

\* Number.isNaN(x)
IsNaN(x) == x.t = "nan"

(***************************************************************************)
(* Strings are sequences of characters.                                    *)
(***************************************************************************)
WhiteSpace == {" "}

RECURSIVE TrimStart(_)
TrimStart(s) ==
  IF s # <<>> /\ Head(s) \in WhiteSpace THEN TrimStart(Tail(s)) ELSE s

RECURSIVE TrimEnd(_)
TrimEnd(s) ==
  IF s # <<>> /\ s[Len(s)] \in WhiteSpace THEN TrimEnd(SubSeq(s, 1, Len(s) - 1)) ELSE s

\* String.prototype.trim
Trim(s) == TrimEnd(TrimStart(s))

\* x?.trim()
OptTrim(x) == IF x.t = "str" THEN Str(Trim(x.v)) ELSE Undef

LowerOf(c) ==
  IF c = "A" THEN "a" ELSE IF c = "B" THEN "b" ELSE c

\* String.prototype.toLowerCase
ToLowerCase(s) == [i \in 1..Len(s) |-> LowerOf(s[i])]

\* email.trim() without .toLowerCase()
sanitizeEmailKeepingCase(email) == Trim(email)

sanitizeEmail(email) == ToLowerCase(Trim(email))

(***************************************************************************)
(* Results of a handler.                                                   *)
(***************************************************************************)
Ok == [status |-> "ok", message |-> ""]
Fail(m) == [status |-> "fail", message |-> m]
\* the handler threw: ipcMain rejects the caller's promise
Threw == [status |-> "throw", message |-> "store failure"]

(***************************************************************************)
(* The database: the four tables and the AUTOINCREMENT counters of the     *)
(* tables whose ids are read.                                              *)
(***************************************************************************)
DB == [users |-> users, accounts |-> accounts, transactions |-> transactions,
       monthly_budgets |-> monthly_budgets, sqlite_sequence |-> sqlite_sequence]

EmptyDB == [users |-> <<>>, accounts |-> <<>>, transactions |-> <<>>,
            monthly_budgets |-> <<>>,
            sqlite_sequence |-> [users |-> 0, accounts |-> 0, transactions |-> 0]]

\* INTEGER PRIMARY KEY AUTOINCREMENT: one more than the largest id ever used
NextId(db, table) == db.sqlite_sequence[table] + 1

BumpSeq(db, table) ==
  [db.sqlite_sequence EXCEPT ![table] = db.sqlite_sequence[table] + 1]

\* db.transaction(fn)(): states[i] is the database after the i-th statement of
\* fn; failAt = i > 0 means that statement i throws, and the ROLLBACK restores
\* the database as it was at BEGIN.
\* the same statements outside a transaction: what ran before the failure stays
TransactionNoRollback(pre, states, failAt) ==
  IF failAt = 0
  THEN [committed |-> TRUE, db |-> states[Len(states)]]
  ELSE [committed |-> FALSE, db |-> IF failAt = 1 THEN pre ELSE states[failAt - 1]]

Transaction(pre, states, failAt) ==
  IF failAt = 0
  THEN [committed |-> TRUE, db |-> states[Len(states)]]
  ELSE [committed |-> FALSE, db |-> pre]

(***************************************************************************)
(* Pure helpers of finance.ts.                                             *)
(***************************************************************************)
\* every type accepted
anyTxType(type) == TRUE

isValidTxType(type) == type = "income" \/ type = "expense"

\* the amount without its sign
unsignedAmount(type, amount) == amount

signedAmount(type, amount) == IF type = "income" THEN amount ELSE -amount

AccountTypes == {"checking", "savings", "cash", "credit"}

RECURSIVE SumOver(_, _)
\* sum of f[k] over the keys k in S
SumOver(f, S) ==
  IF S = {} THEN 0
  ELSE LET k == CHOOSE x \in S : TRUE IN f[k] + SumOver(f, S \ {k})

(***************************************************************************)
(* What a handler hands back: the value returned to the caller (res for    *)
(* the write handlers, out for the read handlers), the database after the  *)
(* call and the identifier of the row it inserted (0 if none).             *)
(***************************************************************************)
Done(res, db, newId, out) == [res |-> res, db |-> db, newId |-> newId, out |-> out]

\* ids of S, largest first (ORDER BY id DESC)
RECURSIVE Descending(_)
Descending(S) ==
  IF S = {} THEN <<>>
  ELSE LET m == CHOOSE x \in S : \A y \in S : y <= x
       IN <<m>> \o Descending(S \ {m})

(***************************************************************************)
(* Credential subsystem.  scrypt is a deterministic function of password   *)
(* and salt; both are kept, so that different passwords or salts give      *)
(* different hashes.                                                       *)
(***************************************************************************)
scryptSync(password, salt) == <<"scrypt", password, salt>>

hashPassword(password, salt) == [salt |-> salt, hash |-> scryptSync(password, salt)]

verifyPassword(password, storedHash) ==
  /\ storedHash.salt # <<>>
  /\ storedHash.hash # <<>>
  /\ scryptSync(password, storedHash.salt) = storedHash.hash

(***************************************************************************)
(* The items handlers (registerItemsIpc).  items is the table of that name *)
(* in the database file: NoSuchTable, or the table with its rows.          *)
(***************************************************************************)
\* the tables of the CREATE TABLE IF NOT EXISTS statements of initDatabase
initDatabaseTables == {"users", "accounts", "transactions", "monthly_budgets"}

NoSuchTable == [exists |-> FALSE, rows |-> <<>>]
Table(rows) == [exists |-> TRUE, rows |-> rows]

\* prepare() throws "no such table" on a table the database does not have
ItemsList(tbl) ==
  IF ~tbl.exists THEN [res |-> Threw, items |-> tbl, out |-> <<>>]
  ELSE [res |-> Ok, items |-> tbl, out |-> tbl.rows]

ItemsAdd(tbl, name) ==
  IF ~tbl.exists THEN [res |-> Threw, items |-> tbl, out |-> FALSE]
  ELSE [res |-> Ok, out |-> TRUE,
        items |-> Table(Append(tbl.rows, [id |-> Len(tbl.rows) + 1, name |-> name]))]

(***************************************************************************)
(* auth:register                                                           *)
(***************************************************************************)
InsertUser(db, name, email, passwordHash) ==
  [db EXCEPT !.users = @ @@ (NextId(db, "users") :>
                        [name |-> name, email |-> email, password_hash |-> passwordHash]),
             !.sqlite_sequence = BumpSeq(db, "users")]

\* INSERT OR REPLACE with the id of the newest row instead of a fresh one
InsertAccountReplacingLast(db, userId, name, type, initialBalance, currentBalance) ==
  LET id == IF db.sqlite_sequence.accounts = 0 THEN 1 ELSE db.sqlite_sequence.accounts
  IN [db EXCEPT !.accounts =
        [a \in DOMAIN @ \cup {id} |->
           IF a = id
           THEN [user_id |-> userId, name |-> name, type |-> type,
                 initial_balance |-> initialBalance, current_balance |-> currentBalance]
           ELSE @[a]],
                !.sqlite_sequence = BumpSeq(db, "accounts")]

InsertAccount(db, userId, name, type, initialBalance, currentBalance) ==
  [db EXCEPT !.accounts = @ @@ (NextId(db, "accounts") :>
                        [user_id |-> userId, name |-> name, type |-> type,
                         initial_balance |-> initialBalance,
                         current_balance |-> currentBalance]),
             !.sqlite_sequence = BumpSeq(db, "accounts")]

ContaPrincipal == <<"C", "o", "n", "t", "a", " ", "P", "r", "i", "n", "c", "i", "p", "a", "l">>

\* failAt: 0, or the statement of the register transaction that the store fails
Register(db, payload, salt, failAt) ==
  LET name == OptTrim(payload.name)
      email == sanitizeEmail(Nullish(payload.email, Str(<<>>)).v)
      password == Nullish(payload.password, Str(<<>>)).v
      userId == NextId(db, "users")
      s1 == InsertUser(db, name.v, email, hashPassword(password, salt))
      s2 == InsertAccount(s1, userId, ContaPrincipal, "checking", 0, 0)
      tx == Transaction(db, <<s1, s2>>, failAt)
  IN IF Falsy(name) \/ email = <<>> \/ password = <<>>
     THEN Done(Fail("Preencha nome, e-mail e senha."), db, 0, <<>>)
     ELSE IF Len(password) < 6
     THEN Done(Fail("A senha deve ter pelo menos 6 caracteres."), db, 0, <<>>)
     ELSE IF \E u \in DOMAIN db.users : db.users[u].email = email
     THEN Done(Fail("E-mail ja cadastrado."), db, 0, <<>>)
     ELSE IF tx.committed
     THEN Done(Ok, tx.db, userId, [id |-> userId, name |-> name.v, email |-> email])
     ELSE Done(Threw, tx.db, 0, <<>>)

(***************************************************************************)
(* auth:login                                                              *)
(***************************************************************************)
Login(db, payload) ==
  LET email == sanitizeEmail(Nullish(payload.email, Str(<<>>)).v)
      password == Nullish(payload.password, Str(<<>>)).v
      rows == {u \in DOMAIN db.users : db.users[u].email = email}
  IN IF rows = {} \/ ~verifyPassword(password, db.users[CHOOSE u \in rows : TRUE].password_hash)
     THEN Done(Fail("Credenciais invalidas."), db, 0, <<>>)
     ELSE LET u == CHOOSE r \in rows : TRUE
          IN Done(Ok, db, 0, [id |-> u, name |-> db.users[u].name, email |-> db.users[u].email])

(***************************************************************************)
(* accounts:list                                                           *)
(***************************************************************************)
\* the SELECT without its WHERE user_id = ?
ListAccountsOfEveryone(db, userId) ==
  LET ids == Descending(DOMAIN db.accounts)
  IN Done(Ok, db, 0,
          [i \in 1..Len(ids) |->
             [id |-> ids[i], name |-> db.accounts[ids[i]].name,
              type |-> db.accounts[ids[i]].type,
              initial_balance |-> db.accounts[ids[i]].initial_balance,
              current_balance |-> db.accounts[ids[i]].current_balance]])

ListAccounts(db, userId) ==
  LET ids == Descending({a \in DOMAIN db.accounts : db.accounts[a].user_id = userId})
  IN Done(Ok, db, 0,
          [i \in 1..Len(ids) |->
             [id |-> ids[i], name |-> db.accounts[ids[i]].name,
              type |-> db.accounts[ids[i]].type,
              initial_balance |-> db.accounts[ids[i]].initial_balance,
              current_balance |-> db.accounts[ids[i]].current_balance]])

(***************************************************************************)
(* accounts:create                                                         *)
(***************************************************************************)
\* FOREIGN KEY (user_id) REFERENCES users(id), with foreign_keys = ON
UserExists(db, userId) == userId \in DOMAIN db.users

\* the account opened with an empty balance whatever its initial balance
CreateAccountStartsAtZero(db, userId, payload, failAt) ==
  LET name == OptTrim(payload.name)
      type == payload.type
      initialBalance == ToNumber(Nullish(payload.initialBalance, Num(0)))
  IN IF Falsy(name)
     THEN Done(Fail("Nome da conta e obrigatorio."), db, 0, <<>>)
     ELSE IF type \notin AccountTypes
     THEN Done(Fail("Tipo de conta invalido."), db, 0, <<>>)
     ELSE IF IsNaN(initialBalance)
     THEN Done(Fail("Saldo inicial invalido."), db, 0, <<>>)
     ELSE IF failAt # 0 \/ ~UserExists(db, userId)
     THEN Done(Threw, db, 0, <<>>)
     ELSE Done(Ok, InsertAccount(db, userId, name.v, type, initialBalance.v, 0),
               NextId(db, "accounts"), <<>>)

CreateAccount(db, userId, payload, failAt) ==
  LET name == OptTrim(payload.name)
      type == payload.type
      initialBalance == ToNumber(Nullish(payload.initialBalance, Num(0)))
  IN IF Falsy(name)
     THEN Done(Fail("Nome da conta e obrigatorio."), db, 0, <<>>)
     ELSE IF type \notin AccountTypes
     THEN Done(Fail("Tipo de conta invalido."), db, 0, <<>>)
     ELSE IF IsNaN(initialBalance)
     THEN Done(Fail("Saldo inicial invalido."), db, 0, <<>>)
     ELSE IF failAt # 0 \/ ~UserExists(db, userId)
     THEN Done(Threw, db, 0, <<>>)
     ELSE Done(Ok, InsertAccount(db, userId, name.v, type, initialBalance.v, initialBalance.v),
               NextId(db, "accounts"), <<>>)

(***************************************************************************)
(* Statements of the transaction handlers.                                 *)
(***************************************************************************)
\* SELECT ... FROM accounts WHERE id = ?  /  FROM transactions WHERE id = ?
HasAccount(db, id) == id \in DOMAIN db.accounts
HasTransaction(db, id) == id \in DOMAIN db.transactions

\* !account || account.user_id !== userId, with only the existence test
AccountMissing(db, accountId, userId) == ~HasAccount(db, accountId)

\* !account || account.user_id !== userId
AccountNotFound(db, accountId, userId) ==
  ~HasAccount(db, accountId) \/ db.accounts[accountId].user_id # userId

\* !current || current.user_id !== userId, with only the existence test
TransactionMissing(db, txId, userId) == ~HasTransaction(db, txId)

\* !current || current.user_id !== userId
TransactionNotFound(db, txId, userId) ==
  ~HasTransaction(db, txId) \/ db.transactions[txId].user_id # userId

\* the UPDATE without its WHERE clause
AddToEveryBalance(db, accountId, delta) ==
  [db EXCEPT !.accounts =
     [a \in DOMAIN db.accounts |->
        [db.accounts[a] EXCEPT !.current_balance = db.accounts[a].current_balance + delta]]]

\* UPDATE accounts SET current_balance = current_balance + ? WHERE id = ?
AddToBalance(db, accountId, delta) ==
  [db EXCEPT !.accounts =
     [a \in DOMAIN db.accounts |->
        IF a = accountId
        THEN [db.accounts[a] EXCEPT !.current_balance = db.accounts[a].current_balance + delta]
        ELSE db.accounts[a]]]

\* the reversal left out
ReverseOldDeltaSkipped(db, accountId, oldDelta) == db

\* UPDATE accounts SET current_balance = current_balance - ? WHERE id = ?
ReverseOldDelta(db, accountId, oldDelta) == AddToBalance(db, accountId, -oldDelta)

\* the id taken as the largest id in the table plus one (a rowid without
\* AUTOINCREMENT)
InsertTransactionReusingIds(db, userId, accountId, type, category, description, amount, date) ==
  LET id == IF DOMAIN db.transactions = {} THEN 1
            ELSE 1 + CHOOSE x \in DOMAIN db.transactions :
                       \A y \in DOMAIN db.transactions : y <= x
  IN [db EXCEPT !.transactions = @ @@ (id :>
                        [user_id |-> userId, account_id |-> accountId, type |-> type,
                         category |-> category, description |-> description,
                         amount |-> amount, tx_date |-> date]),
                !.sqlite_sequence = BumpSeq(db, "transactions")]

\* INSERT INTO transactions (...) VALUES (...)
InsertTransaction(db, userId, accountId, type, category, description, amount, date) ==
  [db EXCEPT !.transactions = @ @@ (NextId(db, "transactions") :>
                        [user_id |-> userId, account_id |-> accountId, type |-> type,
                         category |-> category, description |-> description,
                         amount |-> amount, tx_date |-> date]),
             !.sqlite_sequence = BumpSeq(db, "transactions")]

\* the UPDATE without type = ? in its SET list
UpdateTransactionRowKeepingType(db, txId, accountId, type, category, description, amount, date) ==
  [db EXCEPT !.transactions[txId] =
     [@ EXCEPT !.account_id = accountId, !.category = category,
               !.description = description, !.amount = amount, !.tx_date = date]]

\* UPDATE transactions SET account_id = ?, type = ?, ... WHERE id = ?
UpdateTransactionRow(db, txId, accountId, type, category, description, amount, date) ==
  [db EXCEPT !.transactions[txId] =
     [@ EXCEPT !.account_id = accountId, !.type = type, !.category = category,
               !.description = description, !.amount = amount, !.tx_date = date]]

\* DELETE FROM transactions WHERE id = ?
DeleteTransactionRow(db, txId) ==
  [db EXCEPT !.transactions = [t \in DOMAIN @ \ {txId} |-> @[t]]]

\* description || null
OrNull(x) == IF Falsy(x) THEN Null ELSE x

(***************************************************************************)
(* transactions:create                                                     *)
(***************************************************************************)
\* a different answer for an account that exists but belongs to someone else
CreateTransactionForbidden(db, userId, payload, failAt) ==
  LET accountId == ToNumber(payload.accountId)
      type == payload.type
      category == OptTrim(payload.category)
      description == Nullish(OptTrim(payload.description), Str(<<>>))
      amount == ToNumber(payload.amount)
      date == OptTrim(payload.date)
      delta == signedAmount(type, amount.v)
      s1 == InsertTransaction(db, userId, accountId.v, type, category.v,
                              OrNull(description), amount.v, date.v)
      s2 == AddToBalance(s1, accountId.v, delta)
      runTx == Transaction(db, <<s1, s2>>, failAt)
  IN IF Falsy(accountId) \/ Falsy(category) \/ Falsy(date)
     THEN Done(Fail("Conta, categoria e data sao obrigatorias."), db, 0, <<>>)
     ELSE IF ~isValidTxType(type)
     THEN Done(Fail("Tipo de transacao invalido."), db, 0, <<>>)
     ELSE IF IsNaN(amount) \/ amount.v <= 0
     THEN Done(Fail("Valor deve ser maior que zero."), db, 0, <<>>)
     ELSE IF ~HasAccount(db, accountId.v)
     THEN Done(Fail("Conta nao encontrada."), db, 0, <<>>)
     ELSE IF db.accounts[accountId.v].user_id # userId
     THEN Done(Fail("Conta de outro usuario."), db, 0, <<>>)
     ELSE IF runTx.committed
     THEN Done(Ok, runTx.db, NextId(db, "transactions"), <<>>)
     ELSE Done(Threw, runTx.db, 0, <<>>)

CreateTransaction(db, userId, payload, failAt) ==
  LET accountId == ToNumber(payload.accountId)
      type == payload.type
      category == OptTrim(payload.category)
      description == Nullish(OptTrim(payload.description), Str(<<>>))
      amount == ToNumber(payload.amount)
      date == OptTrim(payload.date)
      delta == signedAmount(type, amount.v)
      s1 == InsertTransaction(db, userId, accountId.v, type, category.v,
                              OrNull(description), amount.v, date.v)
      s2 == AddToBalance(s1, accountId.v, delta)
      runTx == Transaction(db, <<s1, s2>>, failAt)
  IN IF Falsy(accountId) \/ Falsy(category) \/ Falsy(date)
     THEN Done(Fail("Conta, categoria e data sao obrigatorias."), db, 0, <<>>)
     ELSE IF ~isValidTxType(type)
     THEN Done(Fail("Tipo de transacao invalido."), db, 0, <<>>)
     ELSE IF IsNaN(amount) \/ amount.v <= 0
     THEN Done(Fail("Valor deve ser maior que zero."), db, 0, <<>>)
     ELSE IF AccountNotFound(db, accountId.v, userId)
     THEN Done(Fail("Conta nao encontrada."), db, 0, <<>>)
     ELSE IF runTx.committed
     THEN Done(Ok, runTx.db, NextId(db, "transactions"), <<>>)
     ELSE Done(Threw, runTx.db, 0, <<>>)

(***************************************************************************)
(* transactions:update                                                     *)
(***************************************************************************)
UpdateTransaction(db, userId, payload, failAt) ==
  LET txId == ToNumber(payload.id)
      newAccountId == ToNumber(payload.accountId)
      newType == payload.type
      newCategory == OptTrim(payload.category)
      newDescription == Nullish(OptTrim(payload.description), Str(<<>>))
      newAmount == ToNumber(payload.amount)
      newDate == OptTrim(payload.date)
      current == db.transactions[txId.v]
      oldDelta == signedAmount(current.type, current.amount)
      newDelta == signedAmount(newType, newAmount.v)
      s1 == ReverseOldDelta(db, current.account_id, oldDelta)
      s2 == AddToBalance(s1, newAccountId.v, newDelta)
      s3 == UpdateTransactionRow(s2, txId.v, newAccountId.v, newType, newCategory.v,
                                 OrNull(newDescription), newAmount.v, newDate.v)
      runTx == Transaction(db, <<s1, s2, s3>>, failAt)
  IN IF Falsy(txId) \/ Falsy(newAccountId) \/ Falsy(newCategory) \/ Falsy(newDate)
     THEN Done(Fail("Dados obrigatorios nao informados."), db, 0, <<>>)
     ELSE IF ~isValidTxType(newType)
     THEN Done(Fail("Tipo de transacao invalido."), db, 0, <<>>)
     ELSE IF IsNaN(newAmount) \/ newAmount.v <= 0
     THEN Done(Fail("Valor deve ser maior que zero."), db, 0, <<>>)
     ELSE IF TransactionNotFound(db, txId.v, userId)
     THEN Done(Fail("Transacao nao encontrada."), db, 0, <<>>)
     ELSE IF AccountNotFound(db, newAccountId.v, userId)
     THEN Done(Fail("Conta nao encontrada."), db, 0, <<>>)
     ELSE IF runTx.committed
     THEN Done(Ok, runTx.db, 0, <<>>)
     ELSE Done(Threw, runTx.db, 0, <<>>)

(***************************************************************************)
(* transactions:delete                                                     *)
(***************************************************************************)
\* the row is removed and the balance is left as it was
DeleteTransactionKeepsBalance(db, userId, txId, failAt) ==
  LET current == db.transactions[txId]
      s1 == DeleteTransactionRow(db, txId)
      runTx == Transaction(db, <<s1>>, failAt)
  IN IF TransactionNotFound(db, txId, userId)
     THEN Done(Fail("Transacao nao encontrada."), db, 0, <<>>)
     ELSE IF runTx.committed
     THEN Done(Ok, runTx.db, 0, <<>>)
     ELSE Done(Threw, runTx.db, 0, <<>>)

\* the old delta is applied a second time instead of being reversed
DeleteTransactionAddsBack(db, userId, txId, failAt) ==
  LET current == db.transactions[txId]
      oldDelta == signedAmount(current.type, current.amount)
      s1 == DeleteTransactionRow(db, txId)
      s2 == AddToBalance(s1, current.account_id, oldDelta)
      runTx == Transaction(db, <<s1, s2>>, failAt)
  IN IF TransactionNotFound(db, txId, userId)
     THEN Done(Fail("Transacao nao encontrada."), db, 0, <<>>)
     ELSE IF runTx.committed
     THEN Done(Ok, runTx.db, 0, <<>>)
     ELSE Done(Threw, runTx.db, 0, <<>>)

DeleteTransaction(db, userId, txId, failAt) ==
  LET current == db.transactions[txId]
      oldDelta == signedAmount(current.type, current.amount)
      s1 == DeleteTransactionRow(db, txId)
      s2 == ReverseOldDelta(s1, current.account_id, oldDelta)
      runTx == Transaction(db, <<s1, s2>>, failAt)
  IN IF TransactionNotFound(db, txId, userId)
     THEN Done(Fail("Transacao nao encontrada."), db, 0, <<>>)
     ELSE IF runTx.committed
     THEN Done(Ok, runTx.db, 0, <<>>)
     ELSE Done(Threw, runTx.db, 0, <<>>)

(***************************************************************************)
(* Text comparison of SQLite (BINARY collation) and the month pattern.     *)
(***************************************************************************)
\* the characters the model's strings are made of, in code-point order
Alphabet == <<" ", "-", "0", "1", "2", "3", "4", "5", "6", "7", "8", "9",
              "A", "B", "C", "F", "G", "P", "a", "b", "c", "d", "i", "l",
              "n", "o", "p", "r", "s", "t", "w", "x">>

CharCode(c) == CHOOSE i \in 1..Len(Alphabet) : Alphabet[i] = c

Digits == {"0", "1", "2", "3", "4", "5", "6", "7", "8", "9"}

RECURSIVE StrLess(_, _)
\* a < b
StrLess(a, b) ==
  IF b = <<>> THEN FALSE
  ELSE IF a = <<>> THEN TRUE
  ELSE IF Head(a) = Head(b) THEN StrLess(Tail(a), Tail(b))
  ELSE CharCode(Head(a)) < CharCode(Head(b))

StrLeq(a, b) == a = b \/ StrLess(a, b)

\* substr(s, 1, n)
Substr1(s, n) == SubSeq(s, 1, IF Len(s) < n THEN Len(s) ELSE n)

\* the pattern without its end anchor
IsMonthUnanchored(s) ==
  /\ Len(s) >= 7
  /\ \A i \in {1, 2, 3, 4, 6, 7} : s[i] \in Digits
  /\ s[5] = "-"

\* /^\d{4}-\d{2}$/.test(s)
IsMonth(s) ==
  /\ Len(s) = 7
  /\ \A i \in {1, 2, 3, 4, 6, 7} : s[i] \in Digits
  /\ s[5] = "-"

(***************************************************************************)
(* transactions:list                                                       *)
(***************************************************************************)
\* the date clauses with > and < in place of >= and <=
MatchesFiltersExclusive(db, t, userId, filters) ==
  LET row == db.transactions[t]
  IN /\ row.user_id = userId
     /\ Falsy(filters.startDate) \/ StrLess(filters.startDate.v, row.tx_date)
     /\ Falsy(filters.endDate) \/ StrLess(row.tx_date, filters.endDate.v)
     /\ filters.type \in {"", "all"} \/ row.type = filters.type
     /\ Falsy(filters.category) \/ row.category = filters.category.v
     /\ Falsy(filters.accountId) \/ row.account_id = ToNumber(filters.accountId).v
     /\ HasAccount(db, row.account_id)

\* the WHERE clauses pushed for the filters that are set
MatchesFilters(db, t, userId, filters) ==
  LET row == db.transactions[t]
  IN /\ row.user_id = userId
     /\ Falsy(filters.startDate) \/ StrLeq(filters.startDate.v, row.tx_date)
     /\ Falsy(filters.endDate) \/ StrLeq(row.tx_date, filters.endDate.v)
     /\ filters.type \in {"", "all"} \/ row.type = filters.type
     /\ Falsy(filters.category) \/ row.category = filters.category.v
     /\ Falsy(filters.accountId) \/ row.account_id = ToNumber(filters.accountId).v
     /\ HasAccount(db, row.account_id)

\* ORDER BY t.tx_date DESC, t.id ASC
TxBeforeOldestIdFirst(db, t1, t2) ==
  \/ StrLess(db.transactions[t2].tx_date, db.transactions[t1].tx_date)
  \/ db.transactions[t1].tx_date = db.transactions[t2].tx_date /\ t1 < t2

\* ORDER BY t.tx_date DESC, t.id DESC
TxBefore(db, t1, t2) ==
  \/ StrLess(db.transactions[t2].tx_date, db.transactions[t1].tx_date)
  \/ db.transactions[t1].tx_date = db.transactions[t2].tx_date /\ t1 > t2

RECURSIVE TxOrdered(_, _)
TxOrdered(db, S) ==
  IF S = {} THEN <<>>
  ELSE LET m == CHOOSE x \in S : \A y \in S \ {x} : TxBefore(db, x, y)
       IN <<m>> \o TxOrdered(db, S \ {m})

ListTransactions(db, userId, filters) ==
  LET ids == TxOrdered(db, {t \in DOMAIN db.transactions : MatchesFilters(db, t, userId, filters)})
  IN Done(Ok, db, 0,
          [i \in 1..Len(ids) |->
             [id |-> ids[i],
              account_id |-> db.transactions[ids[i]].account_id,
              account_name |-> db.accounts[db.transactions[ids[i]].account_id].name,
              type |-> db.transactions[ids[i]].type,
              category |-> db.transactions[ids[i]].category,
              description |-> db.transactions[ids[i]].description,
              amount |-> db.transactions[ids[i]].amount,
              tx_date |-> db.transactions[ids[i]].tx_date]])

(***************************************************************************)
(* finance:summary                                                         *)
(***************************************************************************)
AmountsOfType(db, type) ==
  [t \in DOMAIN db.transactions |->
     IF db.transactions[t].type = type THEN db.transactions[t].amount ELSE 0]

Balances(db) == [a \in DOMAIN db.accounts |-> db.accounts[a].current_balance]

\* the balance taken as income minus expense
SummaryNetBalance(db, userId) ==
  LET txs == {t \in DOMAIN db.transactions : db.transactions[t].user_id = userId}
  IN Done(Ok, db, 0,
          [income |-> SumOver(AmountsOfType(db, "income"), txs),
           expense |-> SumOver(AmountsOfType(db, "expense"), txs),
           balance |-> SumOver(AmountsOfType(db, "income"), txs)
                       - SumOver(AmountsOfType(db, "expense"), txs),
           transactions |-> Cardinality(txs)])

Summary(db, userId) ==
  LET txs == {t \in DOMAIN db.transactions : db.transactions[t].user_id = userId}
      accs == {a \in DOMAIN db.accounts : db.accounts[a].user_id = userId}
  IN Done(Ok, db, 0,
          [income |-> SumOver(AmountsOfType(db, "income"), txs),
           expense |-> SumOver(AmountsOfType(db, "expense"), txs),
           balance |-> SumOver(Balances(db), accs),
           transactions |-> Cardinality(txs)])

(***************************************************************************)
(* budgets:set                                                             *)
(***************************************************************************)
\* monthly_budgets is the bag of its rows (the id column is read nowhere)
BudgetRow(userId, month, category, limitAmount) ==
  [user_id |-> userId, month |-> month, category |-> category, limit_amount |-> limitAmount]

\* the rows that violate UNIQUE(user_id, month, category) against a new row
Conflicting(db, userId, month, category) ==
  {b \in DOMAIN db.monthly_budgets :
     b.user_id = userId /\ b.month = month /\ b.category = category}

\* a plain INSERT on a table without the UNIQUE constraint
InsertBudgetAlways(db, userId, month, category, limitAmount) ==
  [db EXCEPT !.monthly_budgets =
     @ (+) SetToBag({BudgetRow(userId, month, category, limitAmount)})]

\* INSERT ... ON CONFLICT(user_id, month, category) DO UPDATE SET limit_amount
UpsertBudget(db, userId, month, category, limitAmount) ==
  LET conflict == Conflicting(db, userId, month, category)
  IN [db EXCEPT !.monthly_budgets =
        [b \in DOMAIN @ \ conflict |-> @[b]]
        (+) SetToBag({BudgetRow(userId, month, category, limitAmount)})]

SetBudget(db, userId, payload, failAt) ==
  LET month == OptTrim(payload.month)
      category == OptTrim(payload.category)
      limitAmount == ToNumber(payload.limitAmount)
  IN IF Falsy(month) \/ ~IsMonth(month.v)
     THEN Done(Fail("Mes invalido. Use YYYY-MM."), db, 0, <<>>)
     ELSE IF Falsy(category)
     THEN Done(Fail("Categoria e obrigatoria."), db, 0, <<>>)
     ELSE IF IsNaN(limitAmount) \/ limitAmount.v <= 0
     THEN Done(Fail("Limite deve ser maior que zero."), db, 0, <<>>)
     ELSE IF failAt # 0 \/ ~UserExists(db, userId)
     THEN Done(Threw, db, 0, <<>>)
     ELSE Done(Ok, UpsertBudget(db, userId, month.v, category.v, limitAmount.v), 0, <<>>)

(***************************************************************************)
(* budgets:list                                                            *)
(***************************************************************************)
\* the sum without the CASE on the type
SpentOnAnyType(db, userId, month, category) ==
  SumOver([t \in DOMAIN db.transactions |-> db.transactions[t].amount],
          {t \in DOMAIN db.transactions :
             /\ db.transactions[t].user_id = userId
             /\ db.transactions[t].category = category
             /\ Substr1(db.transactions[t].tx_date, 7) = month})

\* SUM(CASE WHEN t.type = 'expense' ...) over the rows the LEFT JOIN pairs
\* with one budget row
SpentOn(db, userId, month, category) ==
  SumOver(AmountsOfType(db, "expense"),
          {t \in DOMAIN db.transactions :
             /\ db.transactions[t].user_id = userId
             /\ db.transactions[t].category = category
             /\ Substr1(db.transactions[t].tx_date, 7) = month})

\* the thresholds with > in place of >=
BudgetStatusStrict(category, limit, spent) ==
  LET percentNum == IF limit > 0 THEN spent * 100 ELSE 0
      percentDen == IF limit > 0 THEN limit ELSE 1
  IN [category |-> category, limit |-> limit, spent |-> spent,
      remaining |-> limit - spent,
      percent |-> [num |-> percentNum, den |-> percentDen],
      status |-> IF percentNum > 100 * percentDen THEN "exceeded"
                 ELSE IF percentNum > 80 * percentDen THEN "warning"
                 ELSE "ok"]

\* rows.map(...): percent is kept as the fraction spent * 100 / limit
BudgetStatus(category, limit, spent) ==
  LET percentNum == IF limit > 0 THEN spent * 100 ELSE 0
      percentDen == IF limit > 0 THEN limit ELSE 1
  IN [category |-> category, limit |-> limit, spent |-> spent,
      remaining |-> limit - spent,
      percent |-> [num |-> percentNum, den |-> percentDen],
      status |-> IF percentNum >= 100 * percentDen THEN "exceeded"
                 ELSE IF percentNum >= 80 * percentDen THEN "warning"
                 ELSE "ok"]

\* ORDER BY b.category ASC, over the groups of GROUP BY b.category, b.limit_amount
RECURSIVE CategoriesAscending(_)
CategoriesAscending(S) ==
  IF S = {} THEN <<>>
  ELSE LET m == CHOOSE x \in S : \A y \in S : ~StrLess(y.category, x.category)
       IN <<m>> \o CategoriesAscending(S \ {m})

ListBudgets(db, userId, month) ==
  LET m == Nullish(month, Str(<<>>)).v
      groups == CategoriesAscending({b \in DOMAIN db.monthly_budgets :
                                       b.user_id = userId /\ b.month = m})
  IN IF ~IsMonth(m)
     THEN Done(Ok, db, 0, <<>>)
     ELSE Done(Ok, db, 0,
               [i \in 1..Len(groups) |->
                  BudgetStatus(groups[i].category, groups[i].limit_amount,
                               db.monthly_budgets[groups[i]]
                               * SpentOn(db, userId, m, groups[i].category))])

(***************************************************************************)
(* trendPoints (renderer): the six month keys ending with the month of     *)
(* now, and the transactions of allTransactions folded into their buckets. *)
(* now is [year, month] as getFullYear() and getMonth() give them.         *)
(***************************************************************************)
DigitChars == <<"0", "1", "2", "3", "4", "5", "6", "7", "8", "9">>

\* String(n), n >= 0
RECURSIVE NatToString(_)
NatToString(n) ==
  IF n < 10 THEN <<DigitChars[n + 1]>>
  ELSE NatToString(n \div 10) \o <<DigitChars[(n % 10) + 1]>>

\* s.padStart(2, "0")
PadStart2(s) == IF Len(s) < 2 THEN <<"0">> \o s ELSE s

\* new Date(year, monthIndex, 1): a month index outside 0..11 carries into
\* the year
DateOfMonth(year, monthIndex) ==
  [year |-> (year * 12 + monthIndex) \div 12, month |-> (year * 12 + monthIndex) % 12]

\* `${date.getFullYear()}-${String(date.getMonth() + 1).padStart(2, "0")}`
MonthKey(date) == NatToString(date.year) \o <<"-">> \o PadStart2(NatToString(date.month + 1))

\* the loop with i running from 6 down to 1
TrendMonthsBeforeNow(now) ==
  [k \in 1..6 |-> MonthKey(DateOfMonth(now.year, now.month - (7 - k)))]

\* for (let i = 5; i >= 0; i -= 1) months.push(...)
TrendMonths(now) ==
  [k \in 1..6 |-> MonthKey(DateOfMonth(now.year, now.month - (6 - k)))]

\* allTransactions.value.forEach(...), from the i-th transaction on
RECURSIVE TrendFold(_, _, _)
TrendFold(map, list, i) ==
  IF i > Len(list) THEN map
  ELSE LET tx == list[i]
           month == Substr1(tx.tx_date, 7)
       IN IF month \notin DOMAIN map
          THEN TrendFold(map, list, i + 1)
          ELSE IF tx.type = "income"
          THEN TrendFold([map EXCEPT ![month].income = @ + tx.amount,
                                     ![month].net = @ + tx.amount], list, i + 1)
          ELSE TrendFold([map EXCEPT ![month].expense = @ + tx.amount,
                                     ![month].net = @ - tx.amount], list, i + 1)

trendPoints(now, allTransactions) ==
  LET months == TrendMonths(now)
      empty == [m \in {months[k] : k \in 1..6} |->
                  [month |-> m, income |-> 0, expense |-> 0, net |-> 0]]
      map == TrendFold(empty, allTransactions, 1)
  IN [k \in 1..6 |-> map[months[k]]]

(***************************************************************************)
(* Arguments the presentation layer may send.  Each set holds well-formed  *)
(* payloads and payloads that differ from a well-formed one in one field.  *)
(***************************************************************************)
UserIds == 1..2
AccountIds == 1..MaxAccounts
TxIds == 1..MaxTx

Password == <<"p", "a", "s", "s", "w", "d">>
Salts == {<<"s">>}

RegisterBase == [name |-> Str(<<"n">>), email |-> Str(<<"a">>), password |-> Str(Password)]

RegisterPayloads ==
  {RegisterBase,
   [RegisterBase EXCEPT !.email = Str(<<" ", "B">>)],
   [RegisterBase EXCEPT !.name = Str(<<" ">>)],
   [RegisterBase EXCEPT !.email = Undef],
   [RegisterBase EXCEPT !.password = Str(<<"p">>)]}

LoginPayloads ==
  {[email |-> Str(<<"A", " ">>), password |-> Str(Password)],
   [email |-> Str(<<"b">>), password |-> Str(<<"p">>)]}

AccountBase == [name |-> Str(<<"P">>), type |-> "savings", initialBalance |-> Num(500)]

AccountPayloads ==
  {AccountBase,
   [AccountBase EXCEPT !.initialBalance = Undef],
   [AccountBase EXCEPT !.name = Str(<<" ">>)],
   [AccountBase EXCEPT !.type = "bogus"],
   [AccountBase EXCEPT !.initialBalance = NaN]}

Date1 == <<"2", "0", "2", "6", "-", "0", "1", "-", "1", "5">>
Month1 == <<"2", "0", "2", "6", "-", "0", "1">>

TxBase == [accountId |-> Num(1), type |-> "expense", category |-> Str(<<"F">>),
           description |-> Undef, amount |-> Num(100), date |-> Str(Date1)]

\* payloads that pass the field validation
ValidTxPayloads ==
  {[TxBase EXCEPT !.accountId = Num(a), !.type = ty, !.amount = Num(am)] :
     a \in AccountIds, ty \in {"income", "expense"}, am \in {50, 100}}
  \cup {[TxBase EXCEPT !.category = Str(<<" ", "G">>), !.description = Str(<<"d", " ">>)]}

\* payloads with one missing or malformed field
InvalidTxPayloads ==
  {[TxBase EXCEPT !.accountId = Num(0)],
   [TxBase EXCEPT !.accountId = Undef],
   [TxBase EXCEPT !.category = Str(<<>>)],
   [TxBase EXCEPT !.category = Str(<<" ">>)],
   [TxBase EXCEPT !.date = Str(<<>>)],
   [TxBase EXCEPT !.date = Str(<<" ", " ">>)],
   [TxBase EXCEPT !.type = "transfer"],
   [TxBase EXCEPT !.amount = Num(0)],
   [TxBase EXCEPT !.amount = Num(-50)],
   [TxBase EXCEPT !.amount = NaN]}

TxPayloads == ValidTxPayloads \cup InvalidTxPayloads

WithId(p, id) ==
  [id |-> id, accountId |-> p.accountId, type |-> p.type, category |-> p.category,
   description |-> p.description, amount |-> p.amount, date |-> p.date]

UpdatePayloads ==
  {WithId(p, Num(t)) : p \in TxPayloads, t \in TxIds} \cup {WithId(TxBase, Num(0))}

NoFilters == [startDate |-> Undef, endDate |-> Undef, type |-> "", category |-> Undef,
              accountId |-> Undef]

FilterInputs ==
  {NoFilters,
   [NoFilters EXCEPT !.type = "income"],
   [NoFilters EXCEPT !.startDate = Str(Date1), !.endDate = Str(Date1),
                     !.type = "all", !.accountId = Num(1)]}

BudgetBase == [month |-> Str(Month1), category |-> Str(<<"F">>), limitAmount |-> Num(100)]

BudgetPayloads ==
  {BudgetBase,
   [BudgetBase EXCEPT !.month = Str(<<"2", "0", "2", "6", "-", "1">>)],
   [BudgetBase EXCEPT !.category = Str(<<" ">>)],
   [BudgetBase EXCEPT !.limitAmount = Num(0)]}

MonthInputs == {Str(Month1), Str(<<"x">>)}

\* the last day of the month before Month1
Date0 == <<"2", "0", "2", "5", "-", "1", "2", "-", "3", "1">>
Month0 == <<"2", "0", "2", "5", "-", "1", "2">>

\* transactions that differ in what a budget row looks at: amount, type,
\* category and month
BudgetTxPayloads ==
  UNION {{[TxBase EXCEPT !.accountId = Num(a), !.amount = Num(50)],
          [TxBase EXCEPT !.accountId = Num(a)],
          [TxBase EXCEPT !.accountId = Num(a), !.type = "income"],
          [TxBase EXCEPT !.accountId = Num(a), !.category = Str(<<" ", "G">>)],
          [TxBase EXCEPT !.accountId = Num(a), !.date = Str(Date0)]} : a \in AccountIds}

BudgetInputs ==
  BudgetPayloads
  \cup {[BudgetBase EXCEPT !.limitAmount = Num(125)],
        [BudgetBase EXCEPT !.category = Str(<<"G", " ">>)],
        [BudgetBase EXCEPT !.month = Str(<<" ">> \o Month0)],
        [BudgetBase EXCEPT !.month = Undef],
        [BudgetBase EXCEPT !.month = Str(Date1)],
        [BudgetBase EXCEPT !.category = Undef],
        [BudgetBase EXCEPT !.limitAmount = Num(-5)],
        [BudgetBase EXCEPT !.limitAmount = NaN]}

\* the first day of Month1
Day1 == <<"2", "0", "2", "6", "-", "0", "1", "-", "0", "1">>

\* transactions that differ in what the filters and the trend look at
ListTxPayloads ==
  UNION {{[TxBase EXCEPT !.accountId = Num(a), !.date = Str(Day1)],
          [TxBase EXCEPT !.accountId = Num(a), !.date = Str(Day1),
                         !.type = "income", !.amount = Num(50)],
          [TxBase EXCEPT !.accountId = Num(a), !.date = Str(Date0),
                         !.category = Str(<<"G">>)],
          [TxBase EXCEPT !.accountId = Num(a), !.date = Str(Date0),
                         !.type = "income"]} : a \in AccountIds}

ListedIds == 1..MaxListed

ListUpdatePayloads ==
  {WithId([TxBase EXCEPT !.accountId = Num(a), !.date = Str(Date0)], Num(t)) :
     a \in AccountIds, t \in ListedIds}

\* what buildFilters can put in the filters
ListFilters ==
  {NoFilters,
   [NoFilters EXCEPT !.type = "income"],
   [NoFilters EXCEPT !.type = "expense"],
   [NoFilters EXCEPT !.type = "all"],
   [NoFilters EXCEPT !.category = Str(<<"G">>)],
   [NoFilters EXCEPT !.category = Str(<<>>)],
   [NoFilters EXCEPT !.accountId = Num(1)],
   [NoFilters EXCEPT !.accountId = Num(2)],
   [NoFilters EXCEPT !.accountId = Num(0)],
   [NoFilters EXCEPT !.startDate = Str(Day1)],
   [NoFilters EXCEPT !.endDate = Str(Date0)],
   [NoFilters EXCEPT !.startDate = Str(<<>>), !.endDate = Str(Day1)],
   [NoFilters EXCEPT !.startDate = Str(Day1), !.endDate = Str(Day1)],
   [NoFilters EXCEPT !.startDate = Str(Date0), !.endDate = Str(Day1),
                     !.type = "income", !.category = Str(<<"F">>), !.accountId = Num(1)]}

\* new Date(): June 2026, March 2026, January 2026, December 2025, July 2026
Nows ==
  {[year |-> 2026, month |-> 5], [year |-> 2026, month |-> 2],
   [year |-> 2026, month |-> 0], [year |-> 2025, month |-> 11],
   [year |-> 2026, month |-> 6]}

\* loadAllTransactions (listTransactions without filters), then the
\* computed trendPoints read at time now
LoadTrend(db, userId, now) ==
  Done(Ok, db, 0, trendPoints(now, ListTransactions(db, userId, NoFilters).out))

BudgetMonths == MonthInputs \cup {Str(Month0), Str(<<" ">> \o Month1), Str(Date1), Undef}

(***************************************************************************)
(* The state machine.  The renderer awaits every call before it issues the *)
(* next one (src/unnamed/part_001), and every handler runs to completion   *)
(* in the main process.  last is the call the renderer is awaiting: the    *)
(* handler, its arguments, the store failure injected (failAt), what is    *)
(* returned and the database before the call.  Return hands the result to  *)
(* the renderer, which is then free to issue the next call.  inflight is   *)
(* the set of requests sent and not yet handled; it is empty whenever the  *)
(* renderer awaits each call.                                              *)
(***************************************************************************)
Idle == [op |-> "idle", userId |-> 0, payload |-> <<>>, failAt |-> 0, res |-> Ok,
         newId |-> 0, out |-> <<>>, pre |-> EmptyDB]

Call(op, userId, payload, failAt, pre, r) ==
  [op |-> op, userId |-> userId, payload |-> payload, failAt |-> failAt,
   res |-> r.res, newId |-> r.newId, out |-> r.out, pre |-> pre]

Apply(op, userId, payload, failAt, r) ==
  /\ users' = r.db.users
  /\ accounts' = r.db.accounts
  /\ transactions' = r.db.transactions
  /\ monthly_budgets' = r.db.monthly_budgets
  /\ sqlite_sequence' = r.db.sqlite_sequence
  /\ last' = Call(op, userId, payload, failAt, DB, r)
  /\ inflight' = inflight
  /\ items' = items

\* the store can only fail in a statement the handler gets to execute
Reaches(failAt, r) == failAt = 0 \/ r.res = Ok

Init ==
  /\ users = EmptyDB.users
  /\ accounts = EmptyDB.accounts
  /\ transactions = EmptyDB.transactions
  /\ monthly_budgets = EmptyDB.monthly_budgets
  /\ sqlite_sequence = EmptyDB.sqlite_sequence
  /\ last = Idle
  /\ inflight = {}
  /\ items = IF "items" \in initDatabaseTables THEN Table(<<>>) ELSE NoSuchTable

RegisterAction ==
  /\ last = Idle
  /\ Cardinality(DOMAIN accounts) < MaxAccounts
  /\ \E payload \in RegisterPayloads, salt \in Salts, failAt \in 0..2 :
       /\ Reaches(failAt, Register(DB, payload, salt, 0))
       /\ Apply("register", 0, payload, failAt, Register(DB, payload, salt, failAt))

LoginAction ==
  /\ last = Idle
  /\ \E payload \in LoginPayloads :
       Apply("login", 0, payload, 0, Login(DB, payload))

ListAccountsAction ==
  /\ last = Idle
  /\ \E userId \in UserIds :
       Apply("listAccounts", userId, <<>>, 0, ListAccounts(DB, userId))

CreateAccountAction ==
  /\ last = Idle
  /\ Cardinality(DOMAIN accounts) < MaxAccounts
  /\ \E userId \in UserIds, payload \in AccountPayloads, failAt \in 0..1 :
       /\ Reaches(failAt, CreateAccount(DB, userId, payload, 0))
       /\ Apply("createAccount", userId, payload, failAt,
                CreateAccount(DB, userId, payload, failAt))

ListTransactionsAction ==
  /\ last = Idle
  /\ \E userId \in UserIds, filters \in FilterInputs :
       Apply("listTransactions", userId, filters, 0, ListTransactions(DB, userId, filters))

CreateTransactionAction ==
  /\ last = Idle
  /\ sqlite_sequence.transactions < MaxTx
  /\ \E userId \in UserIds, payload \in TxPayloads, failAt \in 0..2 :
       /\ Reaches(failAt, CreateTransaction(DB, userId, payload, 0))
       /\ Apply("createTransaction", userId, payload, failAt,
                CreateTransaction(DB, userId, payload, failAt))

UpdateTransactionAction ==
  /\ last = Idle
  /\ \E userId \in UserIds, payload \in UpdatePayloads, failAt \in 0..3 :
       /\ Reaches(failAt, UpdateTransaction(DB, userId, payload, 0))
       /\ Apply("updateTransaction", userId, payload, failAt,
                UpdateTransaction(DB, userId, payload, failAt))

DeleteTransactionAction ==
  /\ last = Idle
  /\ \E userId \in UserIds, txId \in TxIds, failAt \in 0..2 :
       /\ Reaches(failAt, DeleteTransaction(DB, userId, txId, 0))
       /\ Apply("deleteTransaction", userId, [id |-> txId], failAt,
                DeleteTransaction(DB, userId, txId, failAt))

SummaryAction ==
  /\ last = Idle
  /\ \E userId \in UserIds :
       Apply("getSummary", userId, <<>>, 0, Summary(DB, userId))

SetBudgetAction ==
  /\ last = Idle
  /\ \E userId \in UserIds, payload \in BudgetPayloads, failAt \in 0..1 :
       /\ Reaches(failAt, SetBudget(DB, userId, payload, 0))
       /\ Apply("setBudget", userId, payload, failAt, SetBudget(DB, userId, payload, failAt))

ListBudgetsAction ==
  /\ last = Idle
  /\ \E userId \in UserIds, month \in MonthInputs :
       Apply("listBudgets", userId, month, 0, ListBudgets(DB, userId, month))

\* the awaited promise settles
Return ==
  /\ last # Idle
  /\ inflight = {}
  /\ last' = Idle
  /\ UNCHANGED <<users, accounts, transactions, monthly_budgets, sqlite_sequence, inflight,
                 items>>

Next ==
  \/ RegisterAction
  \/ LoginAction
  \/ ListAccountsAction
  \/ CreateAccountAction
  \/ ListTransactionsAction
  \/ CreateTransactionAction
  \/ UpdateTransactionAction
  \/ DeleteTransactionAction
  \/ SummaryAction
  \/ SetBudgetAction
  \/ ListBudgetsAction
  \/ Return

Spec == Init /\ [][Next]_vars

(***************************************************************************)
(* The budget handlers over the transactions and budgets that tell their   *)
(* rows apart.                                                             *)
(***************************************************************************)
BudgetTxAction ==
  /\ last = Idle
  /\ sqlite_sequence.transactions < MaxTx
  /\ \E userId \in UserIds, payload \in BudgetTxPayloads :
       Apply("createTransaction", userId, payload, 0,
             CreateTransaction(DB, userId, payload, 0))

BudgetSetAction ==
  /\ last = Idle
  /\ \E userId \in UserIds, payload \in BudgetInputs, failAt \in 0..1 :
       /\ Reaches(failAt, SetBudget(DB, userId, payload, 0))
       /\ BagCardinality(SetBudget(DB, userId, payload, failAt).db.monthly_budgets)
            <= MaxBudgets
       /\ Apply("setBudget", userId, payload, failAt, SetBudget(DB, userId, payload, failAt))

BudgetListAction ==
  /\ last = Idle
  /\ \E userId \in UserIds, month \in BudgetMonths :
       Apply("listBudgets", userId, month, 0, ListBudgets(DB, userId, month))

BudgetNext ==
  \/ RegisterAction
  \/ BudgetTxAction
  \/ BudgetSetAction
  \/ BudgetListAction
  \/ Return

BudgetSpec == Init /\ [][BudgetNext]_vars

(***************************************************************************)
(* The listing and the trend over transactions of two dates, created,      *)
(* updated and deleted in any order.                                       *)
(***************************************************************************)
ListCreateAction ==
  /\ last = Idle
  /\ sqlite_sequence.transactions < MaxListed
  /\ \E userId \in UserIds, payload \in ListTxPayloads :
       Apply("createTransaction", userId, payload, 0,
             CreateTransaction(DB, userId, payload, 0))

ListUpdateAction ==
  /\ last = Idle
  /\ \E userId \in UserIds, payload \in ListUpdatePayloads :
       Apply("updateTransaction", userId, payload, 0,
             UpdateTransaction(DB, userId, payload, 0))

ListDeleteAction ==
  /\ last = Idle
  /\ \E userId \in UserIds, txId \in ListedIds :
       Apply("deleteTransaction", userId, [id |-> txId], 0,
             DeleteTransaction(DB, userId, txId, 0))

ListQueryAction ==
  /\ last = Idle
  /\ \E userId \in UserIds, filters \in ListFilters :
       Apply("listTransactions", userId, filters, 0, ListTransactions(DB, userId, filters))

TrendAction ==
  /\ last = Idle
  /\ \E userId \in UserIds, now \in Nows :
       Apply("trendPoints", userId, now, 0, LoadTrend(DB, userId, now))

ListNext ==
  \/ RegisterAction
  \/ CreateAccountAction
  \/ ListCreateAction
  \/ ListUpdateAction
  \/ ListDeleteAction
  \/ ListQueryAction
  \/ TrendAction
  \/ Return

ListSpec == Init /\ [][ListNext]_vars

(***************************************************************************)
(* Requests in flight at once.  The renderer sends up to MaxInFlight       *)
(* requests before any is answered (two clicks on a button whose handler   *)
(* awaits); the main process takes them from its event loop in any order   *)
(* and runs the handler of each, a synchronous function, to its end.       *)
(* last.payload is the sequence of requests sent, last.pre the database    *)
(* when they were sent, last.out the answers in the order they were given. *)
(***************************************************************************)
Request(op, userId, payload) == [op |-> op, userId |-> userId, payload |-> payload]

ConcurrentRequests ==
  {Request("createTransaction", 1, TxBase),
   Request("createTransaction", 1,
           [TxBase EXCEPT !.accountId = Num(2), !.type = "income", !.amount = Num(50)]),
   Request("updateTransaction", 1,
           WithId([TxBase EXCEPT !.accountId = Num(2), !.type = "income",
                                 !.amount = Num(50)], Num(1))),
   Request("updateTransaction", 1, WithId([TxBase EXCEPT !.amount = Num(50)], Num(2))),
   Request("deleteTransaction", 1, [id |-> 1]),
   Request("deleteTransaction", 1, [id |-> 2]),
   Request("deleteTransaction", 2, [id |-> 1])}

Invocations == UNION {[1..n -> ConcurrentRequests] : n \in 1..MaxInFlight}

Creates(reqs) == Cardinality({n \in DOMAIN reqs : reqs[n].op = "createTransaction"})

\* a snapshot of the database taken when the request was sent
getDbAtInvoke(atInvoke, atHandle) == atInvoke

\* getDb(): the one connection, hence the database as it is when the
\* handler runs
getDb(atInvoke, atHandle) == atHandle

\* the handler registered for the request's channel
Handle(db, r) ==
  CASE r.op = "createTransaction" -> CreateTransaction(db, r.userId, r.payload, 0)
    [] r.op = "updateTransaction" -> UpdateTransaction(db, r.userId, r.payload, 0)
    [] r.op = "deleteTransaction" -> DeleteTransaction(db, r.userId, r.payload.id, 0)

InvokeAction ==
  /\ last = Idle
  /\ inflight = {}
  /\ \E reqs \in Invocations :
       /\ sqlite_sequence.transactions + Creates(reqs) <= MaxTx
       /\ last' = Call("invoke", 0, reqs, 0, DB, Done(Ok, DB, 0, <<>>))
       /\ inflight' = DOMAIN reqs
  /\ UNCHANGED <<users, accounts, transactions, monthly_budgets, sqlite_sequence, items>>

HandleAction ==
  /\ last.op = "invoke"
  /\ \E n \in inflight :
       LET r == Handle(getDb(last.pre, DB), last.payload[n])
       IN /\ users' = r.db.users
          /\ accounts' = r.db.accounts
          /\ transactions' = r.db.transactions
          /\ monthly_budgets' = r.db.monthly_budgets
          /\ sqlite_sequence' = r.db.sqlite_sequence
          /\ last' = [last EXCEPT !.out = Append(@, [n |-> n, res |-> r.res,
                                                      newId |-> r.newId])]
          /\ inflight' = inflight \ {n}
          /\ items' = items

ConcurrentNext ==
  \/ RegisterAction
  \/ CreateAccountAction
  \/ InvokeAction
  \/ HandleAction
  \/ Return

ConcurrentSpec == Init /\ [][ConcurrentNext]_vars

(***************************************************************************)
(* Vocabulary of the properties.                                           *)
(***************************************************************************)
\* the signed-amount convention, stated apart from the code's helper
Signed(type, amount) == IF type = "income" THEN amount ELSE 0 - amount

SignedRows(rows) == [t \in DOMAIN rows |-> Signed(rows[t].type, rows[t].amount)]

RowsOn(rows, a) == {t \in DOMAIN rows : rows[t].account_id = a}

Succeeded == last.res = Ok
WriteOps == {"createTransaction", "updateTransaction", "deleteTransaction"}
PreBalance(a) == last.pre.accounts[a].current_balance
Balance(a) == accounts[a].current_balance

\* every balance is what it was before the call
BalancesUnchanged ==
  /\ DOMAIN accounts = DOMAIN last.pre.accounts
  /\ \A a \in DOMAIN accounts : Balance(a) = PreBalance(a)

(***************************************************************************)
(* C1.  Balance invariant: in every reachable state, every account has     *)
(* current_balance = initial_balance + the sum of the signed amounts       *)
(* (+amount for income, -amount for expense) of the transactions stored    *)
(* on it.                                                                  *)
(***************************************************************************)
C1_BalanceInvariant ==
  \A a \in DOMAIN accounts :
    accounts[a].current_balance =
      accounts[a].initial_balance + SumOver(SignedRows(transactions), RowsOn(transactions, a))

\* an update has just moved a transaction onto an account that now holds two,
\* and the account it left had a non-zero initial balance
C1_Witness ==
  /\ last.op = "updateTransaction" /\ Succeeded
  /\ \E a \in DOMAIN accounts : Cardinality(RowsOn(transactions, a)) = 2
  /\ \E t \in DOMAIN transactions :
       /\ last.pre.transactions[t].account_id # transactions[t].account_id
       /\ accounts[last.pre.transactions[t].account_id].initial_balance = 500

(***************************************************************************)
(* C2.  A successful updateTransaction subtracts the signed amount of the  *)
(* previously stored row from the old account, adds the signed new amount  *)
(* to the new account, overwrites the row and leaves every other balance   *)
(* and row alone.  On an unchanged account the net change is newDelta -    *)
(* oldDelta: 2 * amount towards the new type when only the type flips,     *)
(* nothing when only category, description or date change.                 *)
(***************************************************************************)
C2_UpdateEffect ==
  (last.op = "updateTransaction" /\ Succeeded) =>
    LET p == last.payload
        id == p.id.v
        old == last.pre.transactions[id]
        oldDelta == Signed(old.type, old.amount)
        newDelta == Signed(p.type, p.amount.v)
        oldAcc == old.account_id
        newAcc == p.accountId.v
    IN /\ DOMAIN accounts = DOMAIN last.pre.accounts
       /\ \A a \in DOMAIN accounts :
            Balance(a) = PreBalance(a) - (IF a = oldAcc THEN oldDelta ELSE 0)
                                       + (IF a = newAcc THEN newDelta ELSE 0)
       /\ DOMAIN transactions = DOMAIN last.pre.transactions
       /\ \A t \in DOMAIN transactions \ {id} : transactions[t] = last.pre.transactions[t]
       /\ transactions[id] =
            [user_id |-> old.user_id, account_id |-> newAcc, type |-> p.type,
             category |-> Trim(p.category.v),
             description |-> IF p.description.t = "str" /\ Trim(p.description.v) # <<>>
                             THEN Str(Trim(p.description.v)) ELSE Null,
             amount |-> p.amount.v, tx_date |-> Trim(p.date.v)]
       /\ (oldAcc = newAcc /\ old.amount = p.amount.v /\ old.type # p.type) =>
            Balance(newAcc) - PreBalance(newAcc) =
              IF p.type = "income" THEN 2 * p.amount.v ELSE 0 - 2 * p.amount.v
       /\ (oldAcc = newAcc /\ old.amount = p.amount.v /\ old.type = p.type) =>
            BalancesUnchanged

\* an update that moved the transaction to another account and flipped its type
C2_Witness ==
  /\ last.op = "updateTransaction" /\ Succeeded
  /\ last.pre.transactions[last.payload.id.v].account_id # last.payload.accountId.v
  /\ last.pre.transactions[last.payload.id.v].type # last.payload.type

(***************************************************************************)
(* C3.  Atomicity under store failure: when the store fails in any         *)
(* statement of the atomic unit of createTransaction, updateTransaction or *)
(* deleteTransaction, the failure is surfaced and all rows, balances and   *)
(* counters are what they were before the call.                            *)
(***************************************************************************)
C3_Atomicity ==
  (last.op \in WriteOps /\ last.failAt > 0) =>
    /\ last.res = Threw
    /\ DB = last.pre

\* the store failed after the first balance write of an update that moves a
\* transaction between accounts, before the second
C3_Witness ==
  /\ last.op = "updateTransaction" /\ last.failAt = 2
  /\ transactions[last.payload.id.v].account_id # last.payload.accountId.v

(***************************************************************************)
(* C4.  A successful createTransaction inserts exactly one new row, owned  *)
(* by the caller on the named account, and adds the signed amount to the   *)
(* balance of exactly that account; the other balances and the rows that   *)
(* existed are unchanged.                                                  *)
(***************************************************************************)
C4_CreateEffect ==
  (last.op = "createTransaction" /\ Succeeded) =>
    LET p == last.payload
        id == last.newId
    IN /\ id \notin DOMAIN last.pre.transactions
       /\ DOMAIN transactions = DOMAIN last.pre.transactions \cup {id}
       /\ \A t \in DOMAIN last.pre.transactions : transactions[t] = last.pre.transactions[t]
       /\ transactions[id].user_id = last.userId
       /\ transactions[id].account_id = p.accountId.v
       /\ transactions[id].type = p.type
       /\ transactions[id].amount = p.amount.v
       /\ DOMAIN accounts = DOMAIN last.pre.accounts
       /\ \A a \in DOMAIN accounts :
            Balance(a) = PreBalance(a) + (IF a = p.accountId.v THEN Signed(p.type, p.amount.v) ELSE 0)

\* a create while another account and an earlier transaction exist
C4_Witness ==
  /\ last.op = "createTransaction" /\ Succeeded
  /\ Cardinality(DOMAIN accounts) = 2
  /\ last.pre.transactions # <<>>

(***************************************************************************)
(* C5.  Delete reversal: a successful deleteTransaction removes the row    *)
(* and subtracts its signed amount from the account the row was on; so     *)
(* deleting a row right after creating it restores every balance (income   *)
(* 200 on an account with balance 0 gives 200, deleting it gives 0).       *)
(***************************************************************************)
RoundTripExample(u, a) ==
  LET p == [TxBase EXCEPT !.accountId = Num(a), !.type = "income", !.amount = Num(200)]
      created == CreateTransaction(DB, u, p, 0)
      deleted == DeleteTransaction(created.db, u, created.newId, 0)
  IN /\ created.res = Ok
     /\ created.db.accounts[a].current_balance = 200
     /\ deleted.res = Ok
     /\ deleted.db.accounts[a].current_balance = 0

C5_DeleteReversal ==
  /\ (last.op = "deleteTransaction" /\ Succeeded) =>
       LET id == last.payload.id
           old == last.pre.transactions[id]
       IN /\ DOMAIN transactions = DOMAIN last.pre.transactions \ {id}
          /\ \A t \in DOMAIN transactions : transactions[t] = last.pre.transactions[t]
          /\ DOMAIN accounts = DOMAIN last.pre.accounts
          /\ \A a \in DOMAIN accounts :
               Balance(a) = PreBalance(a)
                            - (IF a = old.account_id THEN Signed(old.type, old.amount) ELSE 0)
  /\ (last.op = "createTransaction" /\ Succeeded) =>
       LET deleted == DeleteTransaction(DB, last.userId, last.newId, 0)
       IN /\ deleted.res = Ok
          /\ deleted.db.transactions = last.pre.transactions
          /\ \A a \in DOMAIN last.pre.accounts :
               deleted.db.accounts[a].current_balance = PreBalance(a)
  /\ \A a \in DOMAIN accounts :
       Balance(a) = 0 => RoundTripExample(accounts[a].user_id, a)

\* the row created last has just been deleted, from an account with another row
C5_Witness ==
  /\ last.op = "deleteTransaction" /\ Succeeded
  /\ last.payload.id = sqlite_sequence.transactions
  /\ RowsOn(transactions, last.pre.transactions[last.payload.id].account_id) # {}

(***************************************************************************)
(* C6.  Reassignment example.  As written: an expense of 100 created on    *)
(* account A when A's balance is 500, then updated to account B as an      *)
(* income of 50, leaves A.balance = 600 and B.balance = B's balance + 50.  *)
(* The code reverses the 100 from the 400 the create left, so A ends at    *)
(* 500: C6_AsWritten is refuted and C6_Reassignment, with 500, holds.      *)
(***************************************************************************)
\* the expense of 100 has just been created on account a, whose balance was 500
CreatedExampleOn(a) ==
  /\ last.op = "createTransaction" /\ Succeeded
  /\ last.payload.accountId = Num(a)
  /\ last.payload.type = "expense" /\ last.payload.amount = Num(100)
  /\ PreBalance(a) = 500

\* the update of the example, on the row just created
MovedTo(b) ==
  UpdateTransaction(DB, last.userId,
                    WithId([TxBase EXCEPT !.accountId = Num(b), !.type = "income",
                                          !.amount = Num(50)], Num(last.newId)), 0)

\* the update of the example has just run on a row that was an expense of 100
\* on account a, whose balance the create had brought from 500 to 400
UpdatedExample(a, b) ==
  /\ last.op = "updateTransaction" /\ Succeeded
  /\ last.payload.accountId = Num(b)
  /\ last.payload.type = "income" /\ last.payload.amount = Num(50)
  /\ last.pre.transactions[last.payload.id.v].account_id = a
  /\ last.pre.transactions[last.payload.id.v].type = "expense"
  /\ last.pre.transactions[last.payload.id.v].amount = 100
  /\ PreBalance(a) = 400

OwnedPairs ==
  {ab \in (DOMAIN accounts) \X (DOMAIN accounts) :
     ab[1] # ab[2] /\ accounts[ab[1]].user_id = accounts[ab[2]].user_id}

C6_AsWritten ==
  \A ab \in OwnedPairs :
    CreatedExampleOn(ab[1]) =>
      /\ MovedTo(ab[2]).res = Ok
      /\ MovedTo(ab[2]).db.accounts[ab[1]].current_balance = 600
      /\ MovedTo(ab[2]).db.accounts[ab[2]].current_balance = Balance(ab[2]) + 50

C6_Reassignment ==
  \A ab \in OwnedPairs :
    /\ CreatedExampleOn(ab[1]) =>
         /\ MovedTo(ab[2]).res = Ok
         /\ MovedTo(ab[2]).db.accounts[ab[1]].current_balance = 500
         /\ MovedTo(ab[2]).db.accounts[ab[2]].current_balance = Balance(ab[2]) + 50
    /\ UpdatedExample(ab[1], ab[2]) =>
         /\ Balance(ab[1]) = 500
         /\ Balance(ab[2]) = PreBalance(ab[2]) + 50

\* the update of the example has run on the only transaction ever created
C6_Witness ==
  /\ sqlite_sequence.transactions = 1
  /\ \E ab \in OwnedPairs : UpdatedExample(ab[1], ab[2])

(***************************************************************************)
(* C7.  Cross-user isolation of mutations: createTransaction naming        *)
(* another user's account, updateTransaction naming another user's         *)
(* transaction or another user's account, and deleteTransaction naming     *)
(* another user's transaction never succeed and change no row and no       *)
(* balance; when the fields of the payload are valid the result is the     *)
(* not-found failure.                                                      *)
(***************************************************************************)
ForeignAccount(a) ==
  a \in DOMAIN last.pre.accounts /\ last.pre.accounts[a].user_id # last.userId

ForeignTransaction(t) ==
  t \in DOMAIN last.pre.transactions /\ last.pre.transactions[t].user_id # last.userId

OwnTransaction(t) ==
  t \in DOMAIN last.pre.transactions /\ last.pre.transactions[t].user_id = last.userId

\* the payload of the call names a positive account id and passes the field checks
ValidFields(p) ==
  /\ p.accountId.t = "num" /\ p.accountId.v # 0
  /\ p.category.t = "str" /\ \E i \in 1..Len(p.category.v) : p.category.v[i] # " "
  /\ p.date.t = "str" /\ \E i \in 1..Len(p.date.v) : p.date.v[i] # " "
  /\ p.type \in {"income", "expense"}
  /\ p.amount.t = "num" /\ p.amount.v > 0

NothingChanged == DB = last.pre

C7_CrossUserIsolation ==
  /\ (last.op = "createTransaction" /\ last.payload.accountId.t = "num"
        /\ ForeignAccount(last.payload.accountId.v)) =>
       /\ last.res.status = "fail" /\ NothingChanged
       /\ ValidFields(last.payload) => last.res = Fail("Conta nao encontrada.")
  /\ (last.op = "updateTransaction" /\ ForeignTransaction(last.payload.id.v)) =>
       /\ last.res.status = "fail" /\ NothingChanged
       /\ ValidFields(last.payload) => last.res = Fail("Transacao nao encontrada.")
  /\ (last.op = "updateTransaction" /\ OwnTransaction(last.payload.id.v)
        /\ last.payload.accountId.t = "num" /\ ForeignAccount(last.payload.accountId.v)) =>
       /\ last.res.status = "fail" /\ NothingChanged
       /\ ValidFields(last.payload) => last.res = Fail("Conta nao encontrada.")
  /\ (last.op = "deleteTransaction" /\ ForeignTransaction(last.payload.id)) =>
       /\ last.res = Fail("Transacao nao encontrada.") /\ NothingChanged

\* a valid update of the caller's own transaction onto another user's account
C7_Witness ==
  /\ last.op = "updateTransaction"
  /\ OwnTransaction(last.payload.id.v)
  /\ ValidFields(last.payload)
  /\ ForeignAccount(last.payload.accountId.v)

(***************************************************************************)
(* C8.  Not-found indistinguishability: a create, update or delete that    *)
(* names an account or transaction of another user returns what the same   *)
(* call returns on the database from which that row is absent, and both    *)
(* leave the caller's rows the same.                                       *)
(***************************************************************************)
\* the database without account a (its transactions go with it: ON DELETE CASCADE)
WithoutAccount(db, a) ==
  [db EXCEPT !.accounts = [x \in DOMAIN db.accounts \ {a} |-> db.accounts[x]],
             !.transactions = [t \in {x \in DOMAIN db.transactions :
                                        db.transactions[x].account_id # a} |->
                                 db.transactions[t]]]

WithoutTransaction(db, t) ==
  [db EXCEPT !.transactions = [x \in DOMAIN db.transactions \ {t} |-> db.transactions[x]]]

\* the rows of user u
OwnView(db, u) ==
  [accounts |-> [a \in {x \in DOMAIN db.accounts : db.accounts[x].user_id = u} |->
                   db.accounts[a]],
   transactions |-> [t \in {x \in DOMAIN db.transactions : db.transactions[x].user_id = u} |->
                       db.transactions[t]]]

SameAnswer(other) ==
  /\ other.res = last.res
  /\ OwnView(other.db, last.userId) = OwnView(DB, last.userId)

C8_NotFoundIndistinguishable ==
  /\ (last.op = "createTransaction" /\ last.payload.accountId.t = "num"
        /\ ForeignAccount(last.payload.accountId.v)) =>
       SameAnswer(CreateTransaction(WithoutAccount(last.pre, last.payload.accountId.v),
                                    last.userId, last.payload, 0))
  /\ (last.op = "updateTransaction" /\ ForeignTransaction(last.payload.id.v)) =>
       SameAnswer(UpdateTransaction(WithoutTransaction(last.pre, last.payload.id.v),
                                    last.userId, last.payload, 0))
  /\ (last.op = "updateTransaction" /\ OwnTransaction(last.payload.id.v)
        /\ last.payload.accountId.t = "num" /\ ForeignAccount(last.payload.accountId.v)) =>
       SameAnswer(UpdateTransaction(WithoutAccount(last.pre, last.payload.accountId.v),
                                    last.userId, last.payload, 0))
  /\ (last.op = "deleteTransaction" /\ ForeignTransaction(last.payload.id)) =>
       SameAnswer(DeleteTransaction(WithoutTransaction(last.pre, last.payload.id),
                                    last.userId, last.payload.id, 0))

\* a valid create on another user's account, answered as not found
C8_Witness ==
  /\ last.op = "createTransaction"
  /\ ValidFields(last.payload)
  /\ ForeignAccount(last.payload.accountId.v)
  /\ last.res = Fail("Conta nao encontrada.")

(***************************************************************************)
(* C9.  Validation failures mutate nothing: createTransaction or           *)
(* updateTransaction with a missing or zero account id, an empty or        *)
(* whitespace-only category or date, a type other than income/expense or   *)
(* a non-positive amount returns a failure and leaves the database as it   *)
(* was, for update also when the transaction and the account named are     *)
(* the caller's own.                                                       *)
(***************************************************************************)
C9_ValidationMutatesNothing ==
  (last.op \in {"createTransaction", "updateTransaction"} /\ ~ValidFields(last.payload)) =>
    /\ last.res.status = "fail"
    /\ NothingChanged

\* an update with amount 0 of the caller's own transaction onto the caller's own account
C9_Witness ==
  /\ last.op = "updateTransaction"
  /\ last.payload.amount = Num(0)
  /\ OwnTransaction(last.payload.id.v)
  /\ last.payload.accountId.v \in DOMAIN accounts
  /\ accounts[last.payload.accountId.v].user_id = last.userId

(***************************************************************************)
(* C10.  Closed-world balance mutation: the current_balance of an account  *)
(* that exists changes only in a successful createTransaction,             *)
(* updateTransaction or deleteTransaction; every other call leaves every   *)
(* existing account row as it was.                                         *)
(***************************************************************************)
C10_ClosedWorld ==
  \A a \in DOMAIN last.pre.accounts :
    /\ a \in DOMAIN accounts
    /\ (last.op \in WriteOps /\ Succeeded) \/ accounts[a] = last.pre.accounts[a]
    /\ Balance(a) # PreBalance(a) => (last.op \in WriteOps /\ Succeeded)

\* an account has just been created while another account's balance differs
\* from its initial balance
C10_Witness ==
  /\ last.op = "createAccount" /\ Succeeded
  /\ \E a \in DOMAIN last.pre.accounts :
       last.pre.accounts[a].current_balance # last.pre.accounts[a].initial_balance

(***************************************************************************)
(* C11  A created account starts with current_balance = initial_balance =  *)
(* the initial balance asked for (0 when none is given), and belongs to    *)
(* the caller; a successful registration adds exactly one account, a       *)
(* checking account named "Conta Principal" with both balances 0, owned by *)
(* the new user.                                                           *)
(***************************************************************************)
NewAccounts == DOMAIN accounts \ DOMAIN last.pre.accounts

AskedBalance(p) == IF p.initialBalance.t = "num" THEN p.initialBalance.v ELSE 0

C11_AccountCreation ==
  /\ (last.op = "createAccount" /\ Succeeded) =>
        /\ NewAccounts = {last.newId}
        /\ accounts[last.newId].user_id = last.userId
        /\ accounts[last.newId].initial_balance = AskedBalance(last.payload)
        /\ accounts[last.newId].current_balance = AskedBalance(last.payload)
  /\ (last.op = "register" /\ Succeeded) =>
        /\ DOMAIN users \ DOMAIN last.pre.users = {last.newId}
        /\ Cardinality(NewAccounts) = 1
        /\ \A a \in NewAccounts :
             /\ accounts[a].user_id = last.newId
             /\ accounts[a].name = ContaPrincipal
             /\ accounts[a].type = "checking"
             /\ accounts[a].initial_balance = 0
             /\ accounts[a].current_balance = 0
        /\ \A a \in DOMAIN accounts : accounts[a].user_id = last.newId => a \in NewAccounts

\* an account was opened with 500 beside the one the registration opened with 0
C11_Witness ==
  /\ last.op = "createAccount" /\ Succeeded
  /\ last.payload.initialBalance = Num(500)
  /\ accounts[last.newId].current_balance = 500
  /\ \E a \in DOMAIN last.pre.accounts :
       /\ accounts[a].name = ContaPrincipal
       /\ accounts[a].user_id = last.userId
       /\ accounts[a].initial_balance = 0

(***************************************************************************)
(* C12  getSummary(userId) answers with the sum of the amounts of the      *)
(* user's income rows, the sum of the amounts of the user's expense rows,  *)
(* the number of the user's rows and the sum of current_balance over the   *)
(* user's accounts; for one account opened with 1000 and no transactions   *)
(* that is balance 1000 and income = expense = 0, and for a user without   *)
(* rows it is all zeros.                                                   *)
(***************************************************************************)
Amounts == [t \in DOMAIN transactions |-> transactions[t].amount]

RowsOf(u, type) ==
  {t \in DOMAIN transactions : transactions[t].user_id = u /\ transactions[t].type = type}

AccountsOf(u) == {a \in DOMAIN accounts : accounts[a].user_id = u}

CurrentBalances == [a \in DOMAIN accounts |-> accounts[a].current_balance]

\* one user who opened an account with 1000 (beside the account of the
\* registration, which holds 0), no transactions
ThousandDB ==
  LET r == Register(EmptyDB, RegisterBase, <<"s">>, 0).db
  IN CreateAccount(r, 1, [AccountBase EXCEPT !.initialBalance = Num(1000)], 0).db

C12_Summary ==
  /\ last.op = "getSummary" =>
        /\ last.out.income = SumOver(Amounts, RowsOf(last.userId, "income"))
        /\ last.out.expense = SumOver(Amounts, RowsOf(last.userId, "expense"))
        /\ last.out.transactions =
              Cardinality(RowsOf(last.userId, "income") \cup RowsOf(last.userId, "expense"))
        /\ last.out.balance = SumOver(CurrentBalances, AccountsOf(last.userId))
        /\ (AccountsOf(last.userId) = {} /\ RowsOf(last.userId, "income") = {}
              /\ RowsOf(last.userId, "expense") = {}) =>
             last.out = [income |-> 0, expense |-> 0, balance |-> 0, transactions |-> 0]
  /\ Summary(ThousandDB, 1).out =
        [income |-> 0, expense |-> 0, balance |-> 1000, transactions |-> 0]

\* a summary whose balance is not income minus expense
C12_Witness ==
  /\ last.op = "getSummary"
  /\ last.out.transactions = 2
  /\ last.out.income > 0 /\ last.out.expense > 0
  /\ last.out.balance # last.out.income - last.out.expense

(***************************************************************************)
(* C13  Every row listBudgets returns has remaining = limit - spent,       *)
(* percent = spent / limit * 100, and status exceeded iff spent >= limit,  *)
(* warning iff 80% of limit <= spent < limit, ok otherwise.  In cents,     *)
(* with limit 100.00: spent 79.99 is ok, 80.00 is warning, 100.00 is       *)
(* exceeded, and 0 is ok with percent 0.                                   *)
(***************************************************************************)
StatusFor(spent, limit) ==
  IF spent >= limit THEN "exceeded"
  ELSE IF 5 * spent >= 4 * limit THEN "warning"
  ELSE "ok"

C13_Thresholds ==
  /\ last.op = "listBudgets" =>
        \A i \in 1..Len(last.out) :
          LET row == last.out[i]
          IN /\ row.limit > 0
             /\ row.remaining = row.limit - row.spent
             /\ row.percent.den > 0
             /\ row.percent.num * row.limit = row.spent * 100 * row.percent.den
             /\ row.status = StatusFor(row.spent, row.limit)
  /\ BudgetStatus(<<"F">>, 10000, 7999).status = "ok"
  /\ BudgetStatus(<<"F">>, 10000, 8000).status = "warning"
  /\ BudgetStatus(<<"F">>, 10000, 10000).status = "exceeded"
  /\ BudgetStatus(<<"F">>, 10000, 0).status = "ok"
  /\ BudgetStatus(<<"F">>, 10000, 0).percent.num = 0

\* a listed budget spent to exactly 80% of its limit
C13_Witness ==
  /\ last.op = "listBudgets"
  /\ \E i \in 1..Len(last.out) :
       /\ last.out[i].status = "warning"
       /\ 5 * last.out[i].spent = 4 * last.out[i].limit

(***************************************************************************)
(* C14  listBudgets(userId, month) returns one row per budget entry of the *)
(* user for that month and no other row, ordered by category ascending;    *)
(* the spent of a row is the sum of the amounts of the transactions of the *)
(* same user with type expense, the row's category and a date whose        *)
(* YYYY-MM prefix is the month, and its limit is the entry's limit.        *)
(***************************************************************************)
BudgetsOf(u, m) == {b \in DOMAIN monthly_budgets : b.user_id = u /\ b.month = m}

InMonth(date, m) == Len(date) >= 7 /\ \A i \in 1..7 : date[i] = m[i]

ExpensesOn(u, m, c) ==
  {t \in DOMAIN transactions :
     /\ transactions[t].user_id = u
     /\ transactions[t].type = "expense"
     /\ transactions[t].category = c
     /\ InMonth(transactions[t].tx_date, m)}

C14_ListBudgets ==
  (last.op = "listBudgets" /\ last.payload \in {Str(Month1), Str(Month0)}) =>
    LET u == last.userId
        m == last.payload.v
    IN /\ Len(last.out) = BagCardinality([b \in BudgetsOf(u, m) |-> monthly_budgets[b]])
       /\ {last.out[i].category : i \in 1..Len(last.out)}
            = {b.category : b \in BudgetsOf(u, m)}
       /\ \A i, j \in 1..Len(last.out) :
            i < j => StrLess(last.out[i].category, last.out[j].category)
       /\ \A i \in 1..Len(last.out) :
            /\ last.out[i].spent = SumOver(Amounts, ExpensesOn(u, m, last.out[i].category))
            /\ \E b \in BudgetsOf(u, m) :
                 /\ b.category = last.out[i].category
                 /\ b.limit_amount = last.out[i].limit

\* two budgets listed, the first with one expense counted and an income of
\* the same category and month left out
C14_Witness ==
  /\ last.op = "listBudgets" /\ last.payload = Str(Month1)
  /\ Len(last.out) = 2
  /\ last.out[1].spent = 100
  /\ \E t \in DOMAIN transactions :
       /\ transactions[t].user_id = last.userId
       /\ transactions[t].type = "income"
       /\ transactions[t].category = last.out[1].category
       /\ InMonth(transactions[t].tx_date, Month1)

(***************************************************************************)
(* C15  There is at most one budget row per (user, month, category) and    *)
(* every stored limit is > 0; a successful setBudget leaves exactly the    *)
(* rows of the other keys as they were plus one row for its key with the   *)
(* new limit (a row more when the key is new, the same number of rows when *)
(* it exists), and changes no other table.                                 *)
(***************************************************************************)
SameKey(b1, b2) ==
  b1.user_id = b2.user_id /\ b1.month = b2.month /\ b1.category = b2.category

SetRow ==
  BudgetRow(last.userId, Trim(last.payload.month.v), Trim(last.payload.category.v),
            last.payload.limitAmount.v)

C15_BudgetUpsert ==
  /\ \A b \in DOMAIN monthly_budgets :
       /\ monthly_budgets[b] = 1
       /\ b.limit_amount > 0
       /\ \A c \in DOMAIN monthly_budgets : SameKey(b, c) => b = c
  /\ (last.op = "setBudget" /\ Succeeded) =>
       /\ DOMAIN monthly_budgets =
            {b \in DOMAIN last.pre.monthly_budgets : ~SameKey(b, SetRow)} \cup {SetRow}
       /\ BagCardinality(monthly_budgets) =
            BagCardinality(last.pre.monthly_budgets)
            + (IF \E b \in DOMAIN last.pre.monthly_budgets : SameKey(b, SetRow) THEN 0 ELSE 1)
       /\ users = last.pre.users
       /\ accounts = last.pre.accounts
       /\ transactions = last.pre.transactions

\* a limit replaced while another user's budget of the same month and
\* category stays
C15_Witness ==
  /\ last.op = "setBudget" /\ Succeeded
  /\ \E b \in DOMAIN last.pre.monthly_budgets :
       SameKey(b, SetRow) /\ b.limit_amount # SetRow.limit_amount
  /\ \E b \in DOMAIN monthly_budgets :
       /\ b.user_id # last.userId
       /\ b.month = SetRow.month /\ b.category = SetRow.category
       /\ b \in DOMAIN last.pre.monthly_budgets

(***************************************************************************)
(* C16  listBudgets with a month that is not of the form YYYY-MM returns   *)
(* an empty list and no error.  setBudget with a month that is not of that *)
(* form, with an empty category or with a limit <= 0 returns a validation  *)
(* failure and leaves the database as it was.  As written the month is     *)
(* taken as sent; the handler trims it first, so the statement holds of    *)
(* the month with its surrounding white space removed.                     *)
(***************************************************************************)
MonthForm(x) ==
  /\ x.t = "str"
  /\ Len(x.v) = 7
  /\ x.v[5] = "-"
  /\ \A i \in {1, 2, 3, 4, 6, 7} :
       x.v[i] \in {"0", "1", "2", "3", "4", "5", "6", "7", "8", "9"}

Trimmed(x) == IF x.t = "str" THEN Str(Trim(x.v)) ELSE x

EmptyCategory(p) == p.category.t # "str" \/ Trim(p.category.v) = <<>>

NoLimit(p) == p.limitAmount.t # "num" \/ p.limitAmount.v <= 0

EmptyListOnMalformedMonth ==
  (last.op = "listBudgets" /\ ~MonthForm(last.payload)) =>
    last.res = Ok /\ last.out = <<>>

Refused == last.res.status = "fail" /\ NothingChanged

C16_AsWritten ==
  /\ EmptyListOnMalformedMonth
  /\ (/\ last.op = "setBudget"
      /\ ~MonthForm(last.payload.month) \/ EmptyCategory(last.payload)
           \/ NoLimit(last.payload))
     => Refused

C16_MalformedMonth ==
  /\ EmptyListOnMalformedMonth
  /\ (/\ last.op = "setBudget"
      /\ ~MonthForm(Trimmed(last.payload.month)) \/ EmptyCategory(last.payload)
           \/ NoLimit(last.payload))
     => Refused

\* a full date sent as the month is refused while a budget is stored
C16_Witness ==
  /\ last.op = "setBudget"
  /\ last.payload.month = Str(Date1)
  /\ last.res.status = "fail"
  /\ monthly_budgets # <<>>

(***************************************************************************)
(* C17  The list listTransactions returns is sorted by date descending     *)
(* and, among equal dates, by id descending.  Ids grow in creation order   *)
(* and are never reused: a created transaction gets an id above every id   *)
(* ever given, whatever was deleted or updated before, so of two           *)
(* transactions of the same date the one created later comes first.        *)
(***************************************************************************)
ListedBefore(r1, r2) ==
  \/ StrLess(r2.tx_date, r1.tx_date)
  \/ r1.tx_date = r2.tx_date /\ r1.id > r2.id

C17_ListOrdering ==
  /\ last.op = "listTransactions" =>
       \A i, j \in 1..Len(last.out) : i < j => ListedBefore(last.out[i], last.out[j])
  /\ \A t \in DOMAIN transactions : t <= sqlite_sequence.transactions
  /\ last.pre.sqlite_sequence.transactions <= sqlite_sequence.transactions
  /\ (last.op = "createTransaction" /\ Succeeded) =>
       /\ last.newId \in DOMAIN transactions \ DOMAIN last.pre.transactions
       /\ last.newId > last.pre.sqlite_sequence.transactions

\* the third transaction listed before the first, which has the same date,
\* after the second was deleted
C17_Witness ==
  /\ last.op = "listTransactions"
  /\ DOMAIN transactions = {1, 3}
  /\ Len(last.out) = 2
  /\ last.out[1].id = 3 /\ last.out[2].id = 1
  /\ last.out[1].tx_date = last.out[2].tx_date

(***************************************************************************)
(* C18  listTransactions returns, once each, exactly the transactions of   *)
(* the user that pass every filter that is set: startDate <= date,         *)
(* date <= endDate, type, category and account equal to the ones given.    *)
(* A filter that is omitted, the type "all", an empty string and the       *)
(* accountId 0 restrict nothing.                                           *)
(***************************************************************************)
IsSet(x) == (x.t = "str" /\ x.v # <<>>) \/ (x.t = "num" /\ x.v # 0)

Passes(row, f) ==
  /\ IsSet(f.startDate) => StrLeq(f.startDate.v, row.tx_date)
  /\ IsSet(f.endDate) => StrLeq(row.tx_date, f.endDate.v)
  /\ f.type \notin {"", "all"} => row.type = f.type
  /\ IsSet(f.category) => row.category = f.category.v
  /\ IsSet(f.accountId) => row.account_id = f.accountId.v

Selected(u, f) ==
  {t \in DOMAIN transactions : transactions[t].user_id = u /\ Passes(transactions[t], f)}

C18_ListFiltering ==
  last.op = "listTransactions" =>
    /\ {last.out[i].id : i \in 1..Len(last.out)} = Selected(last.userId, last.payload)
    /\ Len(last.out) = Cardinality(Selected(last.userId, last.payload))
    /\ \A i \in 1..Len(last.out) :
         LET row == transactions[last.out[i].id]
         IN /\ last.out[i].account_id = row.account_id
            /\ last.out[i].account_name = accounts[row.account_id].name
            /\ last.out[i].type = row.type
            /\ last.out[i].category = row.category
            /\ last.out[i].amount = row.amount
            /\ last.out[i].tx_date = row.tx_date

\* all five filters set, with both date bounds met exactly: some of the
\* user's transactions are returned and some are not
C18_Witness ==
  /\ last.op = "listTransactions"
  /\ IsSet(last.payload.startDate) /\ IsSet(last.payload.endDate)
  /\ last.payload.type = "income"
  /\ IsSet(last.payload.category) /\ IsSet(last.payload.accountId)
  /\ \E i, j \in 1..Len(last.out) :
       /\ last.out[i].tx_date = last.payload.startDate.v
       /\ last.out[j].tx_date = last.payload.endDate.v
  /\ Len(last.out) < Cardinality(Selected(last.userId, NoFilters))

(***************************************************************************)
(* C19  For a fixed now the trend is six buckets, for the six consecutive  *)
(* calendar months that end with the month of now, oldest first; the       *)
(* income and expense of a bucket are the sums of the amounts of the       *)
(* user's income and expense transactions dated in its month, and net is   *)
(* income - expense.  So a bucket without transactions is all zero, a      *)
(* transaction dated before the first day of the oldest month or after the *)
(* month of now is in no bucket, and one dated on the first day of the     *)
(* oldest month is in the oldest bucket.                                   *)
(***************************************************************************)
YM(y1, y2, y3, y4, m1, m2) == <<y1, y2, y3, y4, "-", m1, m2>>

Y25(m1, m2) == YM("2", "0", "2", "5", m1, m2)

Y26(m1, m2) == YM("2", "0", "2", "6", m1, m2)

\* the six months ending with now, written out
Window(now) ==
  CASE now = [year |-> 2026, month |-> 5] ->
         <<Y26("0", "1"), Y26("0", "2"), Y26("0", "3"), Y26("0", "4"), Y26("0", "5"),
           Y26("0", "6")>>
    [] now = [year |-> 2026, month |-> 2] ->
         <<Y25("1", "0"), Y25("1", "1"), Y25("1", "2"), Y26("0", "1"), Y26("0", "2"),
           Y26("0", "3")>>
    [] now = [year |-> 2026, month |-> 0] ->
         <<Y25("0", "8"), Y25("0", "9"), Y25("1", "0"), Y25("1", "1"), Y25("1", "2"),
           Y26("0", "1")>>
    [] now = [year |-> 2025, month |-> 11] ->
         <<Y25("0", "7"), Y25("0", "8"), Y25("0", "9"), Y25("1", "0"), Y25("1", "1"),
           Y25("1", "2")>>
    [] now = [year |-> 2026, month |-> 6] ->
         <<Y26("0", "2"), Y26("0", "3"), Y26("0", "4"), Y26("0", "5"), Y26("0", "6"),
           Y26("0", "7")>>

DatedIn(u, type, m) ==
  {t \in DOMAIN transactions :
     /\ transactions[t].user_id = u
     /\ transactions[t].type = type
     /\ InMonth(transactions[t].tx_date, m)}

C19_TrendWindow ==
  last.op = "trendPoints" =>
    /\ Len(last.out) = 6
    /\ \A k \in 1..6 :
         /\ last.out[k].month = Window(last.payload)[k]
         /\ last.out[k].income =
              SumOver(Amounts, DatedIn(last.userId, "income", Window(last.payload)[k]))
         /\ last.out[k].expense =
              SumOver(Amounts, DatedIn(last.userId, "expense", Window(last.payload)[k]))
         /\ last.out[k].net = last.out[k].income - last.out[k].expense

\* in June 2026: a transaction of 1 January 2026 is in the oldest bucket
\* and one of 31 December 2025 is in none
C19_Witness ==
  /\ last.op = "trendPoints"
  /\ last.payload = [year |-> 2026, month |-> 5]
  /\ last.out[1].expense = 100 /\ last.out[1].income = 50
  /\ \A k \in 2..6 : last.out[k] = [month |-> Window(last.payload)[k], income |-> 0,
                                      expense |-> 0, net |-> 0]
  /\ \E t \in DOMAIN transactions :
       transactions[t].user_id = last.userId /\ transactions[t].tx_date = Date0
  /\ \E t \in DOMAIN transactions :
       transactions[t].user_id = last.userId /\ transactions[t].tx_date = Day1

(***************************************************************************)
(* C20  When several create, update and delete requests are in flight at   *)
(* once, the database and the answers after all were handled are those of  *)
(* running them one after another in some order, and every account keeps   *)
(* current_balance = initial_balance + the signed amounts of its rows      *)
(* throughout.  Two requests on the same transaction of the caller, one of *)
(* them a delete, leave the transaction deleted and its signed amount      *)
(* taken off its account exactly once, every other balance as it was.      *)
(***************************************************************************)
Orders(n) == {p \in [1..n -> 1..n] : \A i, j \in 1..n : p[i] = p[j] => i = j}

\* the requests reqs[order[k]], reqs[order[k + 1]], ... run one after another
RECURSIVE SerialRun(_, _, _, _)
SerialRun(db, reqs, order, k) ==
  IF k > Len(order) THEN [db |-> db, answers |-> {}]
  ELSE LET r == Handle(db, reqs[order[k]])
           rest == SerialRun(r.db, reqs, order, k + 1)
       IN [db |-> rest.db,
           answers |-> {[n |-> order[k], res |-> r.res, newId |-> r.newId]}
                       \cup rest.answers]

AllHandled == last.op = "invoke" /\ inflight = {}

Answers == {last.out[i] : i \in 1..Len(last.out)}

\* the transaction both requests name
SharedTarget(reqs, t) ==
  /\ Len(reqs) = 2
  /\ t \in DOMAIN last.pre.transactions
  /\ \A n \in 1..2 :
       /\ reqs[n].op \in {"updateTransaction", "deleteTransaction"}
       /\ reqs[n].userId = last.pre.transactions[t].user_id
       /\ reqs[n].payload.id = IF reqs[n].op = "deleteTransaction" THEN t ELSE Num(t)
  /\ \E n \in 1..2 : reqs[n].op = "deleteTransaction"

C20_Serialized ==
  /\ \A a \in DOMAIN accounts :
       Balance(a) = accounts[a].initial_balance
                    + SumOver(SignedRows(transactions), RowsOn(transactions, a))
  /\ AllHandled =>
       /\ \E order \in Orders(Len(last.payload)) :
            LET run == SerialRun(last.pre, last.payload, order, 1)
            IN run.db = DB /\ run.answers = Answers
       /\ \A t \in DOMAIN last.pre.transactions :
            SharedTarget(last.payload, t) =>
              /\ t \notin DOMAIN transactions
              /\ Cardinality({x \in Answers : x.res = Ok}) >= 1
              /\ \A a \in DOMAIN accounts :
                   Balance(a) =
                     PreBalance(a)
                     - (IF a = last.pre.transactions[t].account_id
                        THEN Signed(last.pre.transactions[t].type,
                                    last.pre.transactions[t].amount)
                        ELSE 0)

\* two deletes of the same transaction were in flight: one succeeded, the
\* other found nothing
C20_Witness ==
  /\ AllHandled
  /\ Len(last.payload) = 2
  /\ last.payload[1] = last.payload[2]
  /\ last.payload[1].op = "deleteTransaction"
  /\ last.payload[1].payload.id \in DOMAIN last.pre.transactions
  /\ {x.res.status : x \in Answers} = {"ok", "fail"}
  /\ \E a \in DOMAIN accounts : Balance(a) # PreBalance(a)

\* ---------------------------------------------------------------------------
\* C21  Explicit result
\* ---------------------------------------------------------------------------

MutatingOps ==
  {"createAccount", "createTransaction", "updateTransaction", "deleteTransaction", "setBudget"}

\* C21: every call of createAccount, createTransaction, updateTransaction,
\* deleteTransaction or setBudget is answered with {ok: true} or with
\* {ok: false, message}, a failure of the store included, and a call that is
\* not answered {ok: true} has written nothing.
C21_ExplicitResult ==
  last.op \in MutatingOps =>
    /\ last.res.status \in {"ok", "fail"}
    /\ last.res.status = "fail" => last.res.message # ""
    /\ ~Succeeded => NothingChanged

\* ---------------------------------------------------------------------------
\* C22  Per-user read isolation
\* ---------------------------------------------------------------------------

\* what user u can read: the four read operations over their inputs
Reads(db, u) ==
  [accounts |-> ListAccounts(db, u).out,
   transactions |-> [f \in FilterInputs |-> ListTransactions(db, u, f).out],
   summary |-> Summary(db, u).out,
   budgets |-> [m \in MonthInputs |-> ListBudgets(db, u, m).out]]

\* the database with the rows of every user but u removed
Only(db, u) ==
  [users |-> db.users,
   accounts |-> OwnView(db, u).accounts,
   transactions |-> OwnView(db, u).transactions,
   monthly_budgets |-> [b \in {x \in DOMAIN db.monthly_budgets : x.user_id = u} |->
                          db.monthly_budgets[b]],
   sqlite_sequence |-> db.sqlite_sequence]

\* the ids of the rows a listing returned
Listed == {last.out[i].id : i \in 1..Len(last.out)}

\* C22: what listAccounts, listTransactions, getSummary and listBudgets return
\* to user A is computed from A's rows alone; a call made with another user id
\* (or a registration), successful or not, leaves every one of A's results as it
\* was, and a listing made by B returns none of A's rows, also when its
\* accountId filter names an account of A.
C22_ReadIsolation ==
  /\ \A A \in UserIds : Reads(DB, A) = Reads(Only(DB, A), A)
  /\ last # Idle =>
       \A A \in DOMAIN last.pre.users \ {last.userId} : Reads(DB, A) = Reads(last.pre, A)
  /\ last.op = "listAccounts" =>
       \A a \in Listed : accounts[a].user_id = last.userId
  /\ last.op = "listTransactions" =>
       \A t \in Listed : /\ transactions[t].user_id = last.userId
                         /\ accounts[transactions[t].account_id].user_id = last.userId

\* B lists with an accountId filter naming an account of A that has transactions
C22_Witness ==
  /\ last.op = "listTransactions"
  /\ last.payload.accountId.t = "num"
  /\ ForeignAccount(last.payload.accountId.v)
  /\ \E t \in DOMAIN transactions : transactions[t].account_id = last.payload.accountId.v
  /\ \E t \in DOMAIN transactions : transactions[t].user_id = last.userId
  /\ last.out = <<>>

\* ---------------------------------------------------------------------------
\* Registration under e-mails that differ only in case and padding
\* ---------------------------------------------------------------------------

AuthPayloads ==
  RegisterPayloads \cup
  {[RegisterBase EXCEPT !.email = Str(<<"A", " ">>)],
   [RegisterBase EXCEPT !.email = Str(<<"b">>), !.name = Str(<<"m">>)],
   [RegisterBase EXCEPT !.email = Str(<<"c">>)],
   [RegisterBase EXCEPT !.email = Str(<<" ">>)],
   [RegisterBase EXCEPT !.password = Undef]}

AuthRegisterAction ==
  /\ last = Idle
  /\ \E payload \in AuthPayloads, salt \in Salts, failAt \in 0..2 :
       /\ Reaches(failAt, Register(DB, payload, salt, 0))
       /\ Apply("register", 0, payload, failAt, Register(DB, payload, salt, failAt))

AuthNext ==
  \/ AuthRegisterAction
  \/ LoginAction
  \/ ListAccountsAction
  \/ Return

AuthSpec == Init /\ [][AuthNext]_vars

\* ---------------------------------------------------------------------------
\* C23  Registration uniqueness and atomicity
\* ---------------------------------------------------------------------------

\* an e-mail trimmed and lower-cased
Normalized(e) == ToLowerCase(Trim(e))

Blank(x) == x.t # "str" \/ \A i \in 1..Len(x.v) : x.v[i] = " "

\* the registration names a missing field, a short password or a taken e-mail
Rejectable(p) ==
  \/ Blank(p.name)
  \/ Blank(p.email)
  \/ p.password.t # "str"
  \/ Len(p.password.v) < 6
  \/ \E u \in DOMAIN last.pre.users :
       Normalized(last.pre.users[u].email) = Normalized(p.email.v)

AddedUsers == DOMAIN users \ DOMAIN last.pre.users

\* C23: no two users have the same e-mail once trimmed and lower-cased; a
\* registration that is rejected (missing field, password shorter than six
\* characters, e-mail already registered) or that fails in the store creates
\* neither a user nor an account; a successful one creates exactly one user and
\* exactly one account, owned by that user, and touches nothing else.
C23_Registration ==
  /\ \A u, v \in DOMAIN users :
       Normalized(users[u].email) = Normalized(users[v].email) => u = v
  /\ last.op = "register" =>
       /\ Rejectable(last.payload) => last.res.status = "fail"
       /\ ~Succeeded => NothingChanged
       /\ Succeeded =>
            /\ AddedUsers = {last.newId}
            /\ \E a \in NewAccounts :
                 /\ NewAccounts = {a}
                 /\ accounts[a].user_id = last.newId
            /\ \A u \in DOMAIN last.pre.users : users[u] = last.pre.users[u]
            /\ \A a \in DOMAIN last.pre.accounts : accounts[a] = last.pre.accounts[a]
            /\ transactions = last.pre.transactions
            /\ monthly_budgets = last.pre.monthly_budgets

\* "A " is refused because "a" is registered
C23_Witness ==
  /\ last.op = "register"
  /\ last.res = Fail("E-mail ja cadastrado.")
  /\ last.payload.email.v = <<"A", " ">>
  /\ \E u \in DOMAIN users : users[u].email = <<"a">>
  /\ NothingChanged

\* ---------------------------------------------------------------------------
\* The items channels beside registration
\* ---------------------------------------------------------------------------

ItemNames == {<<"x">>, <<"y">>}

ItemsCall(op, payload, r) ==
  /\ last' = Call(op, 0, payload, 0, DB, [res |-> r.res, newId |-> 0, out |-> r.out])
  /\ items' = r.items
  /\ UNCHANGED <<users, accounts, transactions, monthly_budgets, sqlite_sequence, inflight>>

ItemsAddAction ==
  /\ last = Idle
  /\ \E name \in ItemNames : ItemsCall("itemsAdd", name, ItemsAdd(items, name))

ItemsListAction ==
  /\ last = Idle
  /\ ItemsCall("itemsList", <<>>, ItemsList(items))

ItemsNext ==
  \/ ItemsAddAction
  \/ ItemsListAction
  \/ AuthRegisterAction
  \/ Return

ItemsSpec == Init /\ [][ItemsNext]_vars

\* ---------------------------------------------------------------------------
\* C24  The initial table items
\* ---------------------------------------------------------------------------

\* C24: the database that initDatabase leaves has the table items(id, name):
\* items:add(name) succeeds, and the items:list that follows returns a row
\* with that name.
C24_InitialItemsTable ==
  /\ last.op = "itemsAdd" =>
       /\ Succeeded
       /\ \E i \in 1..Len(ItemsList(items).out) : ItemsList(items).out[i].name = last.payload
  /\ last.op = "itemsList" => Succeeded

\* ---------------------------------------------------------------------------
\* C25  Ownership consistency
\* ---------------------------------------------------------------------------

\* C25: the account of every transaction exists and has the transaction's
\* user_id; updateTransaction leaves the set of transaction ids and the user_id
\* of every transaction as they were; no operation removes an account or
\* changes its user_id or its initial_balance.
C25_OwnershipConsistency ==
  /\ \A t \in DOMAIN transactions :
       /\ transactions[t].account_id \in DOMAIN accounts
       /\ accounts[transactions[t].account_id].user_id = transactions[t].user_id
  /\ last.op = "updateTransaction" =>
       /\ DOMAIN transactions = DOMAIN last.pre.transactions
       /\ \A t \in DOMAIN transactions :
            transactions[t].user_id = last.pre.transactions[t].user_id
  /\ last # Idle =>
       \A a \in DOMAIN last.pre.accounts :
         /\ a \in DOMAIN accounts
         /\ accounts[a].user_id = last.pre.accounts[a].user_id
         /\ accounts[a].initial_balance = last.pre.accounts[a].initial_balance

\* an update moved a transaction to another account, whose initial balance is not zero
C25_Witness ==
  /\ last.op = "updateTransaction" /\ Succeeded
  /\ \E t \in DOMAIN transactions :
       /\ transactions[t].account_id # last.pre.transactions[t].account_id
       /\ transactions[t].user_id = last.userId
       /\ accounts[transactions[t].account_id].initial_balance # 0

\* ---------------------------------------------------------------------------
\* C26  Summary consistency
\* ---------------------------------------------------------------------------

InitialBalances == [a \in DOMAIN accounts |-> accounts[a].initial_balance]

\* what the call just made adds to the number of transactions of user u
CountStep(u) ==
  IF Succeeded /\ last.userId = u /\ last.op = "createTransaction" THEN 1
  ELSE IF Succeeded /\ last.userId = u /\ last.op = "deleteTransaction" THEN 0 - 1
  ELSE 0

\* C26: for every user, the balance of getSummary is the sum of the initial
\* balances of the user's accounts plus the summary's income minus its expense;
\* the summary's number of transactions is zero before any transaction was
\* created and goes up by one with each successful createTransaction of the
\* user, down by one with each successful deleteTransaction of the user, and is
\* left alone by every other call, so that it is the number of successful
\* creations minus the number of successful deletions.
C26_SummaryConsistency ==
  \A u \in UserIds :
    LET s == Summary(DB, u).out
    IN /\ s.balance = SumOver(InitialBalances, AccountsOf(u)) + s.income - s.expense
       /\ sqlite_sequence.transactions = 0 => s.transactions = 0
       /\ last # Idle =>
            s.transactions = Summary(last.pre, u).out.transactions + CountStep(u)

\* a deletion left one of two transactions to a user whose accounts opened with money
C26_Witness ==
  /\ last.op = "deleteTransaction" /\ Succeeded
  /\ Summary(last.pre, last.userId).out.transactions = 2
  /\ Summary(DB, last.userId).out.transactions = 1
  /\ SumOver(InitialBalances, AccountsOf(last.userId)) # 0
  /\ Summary(DB, last.userId).out.balance # SumOver(InitialBalances, AccountsOf(last.userId))

\* ---------------------------------------------------------------------------
\* C27  Deleted stays deleted
\* ---------------------------------------------------------------------------

\* the transaction ids handed out and no longer in the table.  A rolled-back
\* INSERT takes its id back with it, so these are the ids of the rows that a
\* deleteTransaction removed.
Deleted(db) == {t \in 1..db.sqlite_sequence.transactions : t \notin DOMAIN db.transactions}

\* C27: a successful deleteTransaction leaves its id deleted; a deleted id
\* stays deleted over every later call, and a new transaction never gets it;
\* an updateTransaction or deleteTransaction naming a deleted id never succeeds
\* and changes nothing, and is answered not-found (for an update, whenever its
\* fields pass the validation that comes before the lookup).
C27_DeletedStaysDeleted ==
  /\ (last.op = "deleteTransaction" /\ Succeeded) => last.payload.id \in Deleted(DB)
  /\ last # Idle => Deleted(last.pre) \subseteq Deleted(DB)
  /\ (last.op = "createTransaction" /\ Succeeded) =>
       /\ last.newId \notin Deleted(last.pre)
       /\ last.newId \notin DOMAIN last.pre.transactions
  /\ (last.op = "deleteTransaction" /\ last.payload.id \in Deleted(last.pre)) =>
       last.res = Fail("Transacao nao encontrada.") /\ NothingChanged
  /\ (last.op = "updateTransaction" /\ last.payload.id.v \in Deleted(last.pre)) =>
       /\ last.res.status = "fail" /\ NothingChanged
       /\ ValidFields(last.payload) => last.res = Fail("Transacao nao encontrada.")

\* transaction 1 was deleted, transaction 2 created after it, and a valid
\* update naming 1 is refused
C27_Witness ==
  /\ last.op = "updateTransaction"
  /\ last.payload.id.v = 1
  /\ Deleted(last.pre) = {1}
  /\ 2 \in DOMAIN transactions
  /\ ValidFields(last.payload)
  /\ last.payload.accountId.v = transactions[2].account_id
  /\ last.userId = transactions[2].user_id
  /\ last.res = Fail("Transacao nao encontrada.")

====
